---- MODULE Spec2Model ----
(***************************************************************************)
(* Model of extract_msg.msg_classes.msg.MSGFile: prefix-scoped container   *)
(* access, the lazily built property store, the string-encoding decision   *)
(* and the single / multi-valued stream accessors.                         *)
(*                                                                         *)
(* A Python str is modelled as a sequence of tokens (a path separator, a   *)
(* storage name, the "__substg1.0_" marker, a 4-hex id, a 4-hex type, the  *)
(* "-" of an indexed sibling, an 8-hex index).  String concatenation is    *)
(* \o, str.startswith is "is a prefix of", x[-4:] is the last token of a   *)
(* stream name and x[-8:] its last two tokens.  bytes are sequences of     *)
(* 0..255; a decoded str value is its sequence of code points.             *)
(***************************************************************************)
EXTENDS Integers, Sequences, FiniteSets, TLC

\* ------------------------------------------------------------------ bounds
\* The registrations after which registerHandler is not called again.
MaxHandlers == 2
\* Largest number of size records in a multi-valued container stream and
\* of indexed sibling streams a container of the model holds.
MaxRecords == 2
\* The factory invocations after which attachments is not read again.
MaxFactoryCalls == 3
\* The container listings after which listDir is not called again.
MaxListCalls == 3
\* The number of size records, and the largest number of indexed siblings,
\* of the sets the typed resolver is run on.
MaxSiblings == 3

\* ------------------------------------------------------------- str helpers
Sep == "/"
SubstgTok == "__substg1.0_"
PropsName == <<"__properties_version1.0">>

HexDigit == <<"0","1","2","3","4","5","6","7","8","9","A","B","C","D","E","F">>
HexByte(b) == HexDigit[(b \div 16) + 1] \o HexDigit[(b % 16) + 1]
\* f'{y:08X}' for the indexes the model uses (y < 256).
IndexSuffix(y) == <<"-", "000000" \o HexByte(y)>>

StartsWith(s, p) == Len(s) >= Len(p) /\ SubSeq(s, 1, Len(p)) = p
Last(s) == s[Len(s)]

RECURSIVE Join(_)
\* '/'.join(list): msgPathToString on a list of segments.
Join(l) ==
    IF l = <<>> THEN <<>>
    ELSE IF Len(l) = 1 THEN l[1]
    ELSE l[1] \o <<Sep>> \o Join(Tail(l))

RECURSIVE SplitAcc(_, _, _)
SplitAcc(s, cur, acc) ==
    IF s = <<>> THEN Append(acc, cur)
    ELSE IF Head(s) = Sep THEN SplitAcc(Tail(s), <<>>, Append(acc, cur))
    ELSE SplitAcc(Tail(s), Append(cur, Head(s)), acc)
\* str.split('/'): the list of segments of a path string.
Split(s) == SplitAcc(s, <<>>, <<>>)

\* --------------------------------------------------------------- outcomes
\* Every Python value an accessor returns (or the exception it raises) is a
\* record of one shape: data is always a sequence of integer sequences.
None == [kind |-> "none", name |-> "", data |-> <<>>]
Bytes(b) == [kind |-> "bytes", name |-> "", data |-> <<b>>]
Str(s) == [kind |-> "str", name |-> "", data |-> <<s>>]
BytesList(l) == [kind |-> "byteslist", name |-> "", data |-> l]
StrList(l) == [kind |-> "strlist", name |-> "", data |-> l]
Bool(b) == [kind |-> IF b THEN "true" ELSE "false", name |-> "", data |-> <<>>]
IntVal(n) == [kind |-> "int", name |-> "", data |-> << <<n>> >>]
Raise(e) == [kind |-> "raise", name |-> e, data |-> <<>>]
\* The name of a text encoding, as the stringEncoding property returns it.
Enc(e) == [kind |-> "enc", name |-> e, data |-> <<>>]
IsRaise(out) == out.kind = "raise"

\* ----------------------------------------------------------------- codecs
\* Code point of one byte under a single-byte legacy codec.  The codecs
\* differ where the real ones do: 0xA4 is the euro sign in ISO-8859-15 and
\* the currency sign in cp1252, 0x80 is the euro sign in cp1252.
LegacyChar(enc, b) ==
    IF enc = "iso-8859-15" /\ b = 164 THEN 8364
    ELSE IF enc = "cp1252" /\ b = 128 THEN 8364
    ELSE b

RECURSIVE Utf16Units(_)
Utf16Units(b) ==
    IF Len(b) < 2 THEN <<>>
    ELSE <<b[1] + 256 * b[2]>> \o Utf16Units(SubSeq(b, 3, Len(b)))

\* bytes.decode(enc): a str outcome, or UnicodeDecodeError for UTF-16 data
\* of odd length.
Decode(enc, b) ==
    IF enc = "utf-16-le"
    THEN IF Len(b) % 2 = 1 THEN Raise("UnicodeDecodeError") ELSE Str(Utf16Units(b))
    ELSE Str([i \in 1..Len(b) |-> LegacyChar(enc, b[i])])

\* s[:-1]
DropLast(s) == IF s = <<>> THEN <<>> ELSE SubSeq(s, 1, Len(s) - 1)

\* Little-endian unsigned integer of a byte sequence.
RECURSIVE LE(_)
LE(b) == IF b = <<>> THEN 0 ELSE b[1] + 256 * LE(Tail(b))

Zeros(n) == [i \in 1..n |-> 0]

\* --------------------------------------------------------------- universe
\* The paths a container of the model may hold, in the order OleFileIO.listdir
\* walks them (names sorted, a storage before its children).
Ids == <<"1234">>
EmbedList == << <<"__attach", "_1">>, <<SubstgTok, "3701", "000D">> >>
EmbedPrefix == Join(EmbedList) \o <<Sep>>

StreamName(id, type) == <<SubstgTok, id, type>>
SiblingName(id, type, y) == StreamName(id, type) \o IndexSuffix(y)
\* A multi-valued container stream followed by its indexed siblings.
SetNames(id, type) ==
    <<StreamName(id, type)>>
    \o [y \in 1..(IF MaxRecords > MaxSiblings THEN MaxRecords ELSE MaxSiblings) |->
            SiblingName(id, type, y - 1)]
IdNames(id) ==
    <<StreamName(id, "001E"), StreamName(id, "001F"), StreamName(id, "0102"),
      StreamName(id, "1003")>>
    \o SetNames(id, "101E") \o SetNames(id, "101F")
    \o <<StreamName(id, "1101")>> \o SetNames(id, "1102")
RECURSIVE ConcatAll(_)
ConcatAll(ss) == IF ss = <<>> THEN <<>> ELSE Head(ss) \o ConcatAll(Tail(ss))
RelNames == <<PropsName>> \o ConcatAll([i \in 1..Len(Ids) |-> IdNames(Ids[i])])
\* A second attachment storage, holding plain data.
Attach2 == <<"__attach", "_2">>
Attach2Data == Attach2 \o <<Sep>> \o StreamName("3701", "0102")
\* The storage of the first recipient of a message and its streams.
RecipDir == <<"__recip_version1.0_#", "00000000">>
RecipNames == <<PropsName, StreamName(Ids[1], "001F"), StreamName(Ids[1], "0102")>>
AllEntries ==
    <<EmbedList[1], Join(EmbedList)>>
    \o [i \in 1..Len(RelNames) |-> EmbedPrefix \o RelNames[i]]
    \o <<Attach2, Attach2Data>>
    \o <<RecipDir>> \o [i \in 1..Len(RecipNames) |-> RecipDir \o <<Sep>> \o RecipNames[i]]
    \o RelNames

\* -------------------------------------------------------------- container
\* The underlying compound file (olefile.OleFileIO): a function from the
\* path string of each stream to its bytes.  Storages are the proper
\* ancestors of the streams.
OleStorages(o) ==
    UNION {{SubSeq(p, 1, i - 1) : i \in {j \in 1..Len(p) : p[j] = Sep}} : p \in DOMAIN o}

\* OleFileIO.exists(path): true for a stream and for a storage.
OleExists(o, s) == s \in DOMAIN o \/ s \in OleStorages(o)

\* ---------------------------------------------------------- property store
\* PropertiesStore(stream, type): the 16-byte slots after a header of 32
\* bytes (top-level message) or 24 bytes (embedded message); each slot is
\* type (2 bytes LE), id (2 bytes LE), flags (4 bytes), value (8 bytes).
\* The store is the sequence of [tag, raw] records, tag = <<id, type>>.
HeaderLen(propType) ==
    IF propType = "MESSAGE" THEN 32 ELSE IF propType = "RECIPIENT" THEN 8 ELSE 24

SlotTag(slot) == <<HexByte(slot[4]) \o HexByte(slot[3]), HexByte(slot[2]) \o HexByte(slot[1])>>

RECURSIVE ParseSlots(_)
ParseSlots(b) ==
    IF Len(b) < 16 THEN <<>>
    ELSE <<[tag |-> SlotTag(b), raw |-> SubSeq(b, 9, 16)]>> \o ParseSlots(SubSeq(b, 17, Len(b)))

\* stream is an outcome of getStream: None and b'' both give an empty store.
PropertiesStore(stream, propType) ==
    IF stream.kind # "bytes" THEN <<>>
    ELSE ParseSlots(SubSeq(stream.data[1], HeaderLen(propType) + 1, Len(stream.data[1])))

\* name in store
StoreContains(store, name) == \E i \in 1..Len(store) : store[i].tag = name

\* store.getValue(name, default): the value of the first record whose tag
\* is name (an id alone addresses the first record with that id).
StoreGetValue(store, name, default) ==
    IF \E i \in 1..Len(store) : StartsWith(store[i].tag, name)
    THEN LET i == CHOOSE j \in 1..Len(store) :
                      /\ StartsWith(store[j].tag, name)
                      /\ \A k \in 1..(j - 1) : ~StartsWith(store[k].tag, name)
         IN IntVal(LE(SubSeq(store[i].raw, 1, 4)))
    ELSE default

\* The codecs codecs.lookup knows.
KnownCodecs == {"cp1252", "iso-8859-15", "utf-16-le"}

\* encoding.lookupCodePage: the codepage -> codec table.
lookupCodePage(cp) ==
    IF cp = 1252 THEN Enc("cp1252")
    ELSE IF cp = 28605 THEN Enc("iso-8859-15")
    ELSE IF cp = 1200 THEN Enc("utf-16-le")
    ELSE Raise("UnsupportedEncodingError")

TagStoreSupportMask == <<"340D", "0003">>
TagCodepage == <<"3FFD", "0003">>
UnicodeBit == 262144

\* ------------------------------------------------------------ entity state
\* The fields of one MSGFile instance.  open is "unset" until __init__
\* assigns it; a cached_property is a [set, val] cell.  initAttachmentFunc
\* is the set of storages the injected factory raises for; the value of
\* named is the prefix of the entity whose Named service it is.
NewMsg == [
    prefix |-> <<>>, prefixList |-> <<>>, prefixLen |-> 0,
    errorBehavior |-> {}, initAttachmentFunc |-> {},
    named |-> [set |-> FALSE, val |-> <<>>],
    attachmentsDelayed |-> FALSE, attachmentsReady |-> FALSE,
    open |-> "unset", oleOwner |-> FALSE,
    overrideEncoding |-> "none", stringEncoding |-> "unset",
    filename |-> None,
    props |-> [set |-> FALSE, val |-> <<>>],
    areStringsUnicode |-> [set |-> FALSE, val |-> FALSE],
    listDirRes |-> <<>>,
    parentMsg |-> FALSE,
    attachments |-> [set |-> FALSE, val |-> <<>>]]

\* What a call yields: its outcome, the entity state it leaves and the
\* container paths it handed to OleFileIO.exists / openstream.
R(out, st, reads) == [out |-> out, st |-> st, reads |-> reads]
\* The (found, result) pair of the typed resolvers.
F(found, out, st, reads) == [found |-> found, out |-> out, st |-> st, reads |-> reads]
\* A directory listing: the ordered list of segment lists.
\* listed tells whether the call went to OleFileIO.listdir.
RL(list, st) == [list |-> list, st |-> st, listed |-> FALSE]
Listed(r) == [r EXCEPT !.listed = TRUE]

\* --------------------------------------------------------------- accessors
\* A value that is used several times is bound as the parameter of a local
\* operator, so that each call is written (and evaluated) once.

\* A variant of fixPath that drops the prefix.
fixPathUnscoped(st, inp, prefix) == inp

fixPath(st, inp, prefix) == IF prefix THEN st.prefix \o inp ELSE inp

exists(o, st, inp, prefix) ==
    LET probe(fn) == R(Bool(OleExists(o, fn)), st, {fn})
    IN probe(fixPath(st, inp, prefix))

getStream(o, st, filename, prefix) ==
    LET read(fn, ex) ==
            IF ex.out.kind = "true"
            THEN IF fn \in DOMAIN o
                 THEN R(Bytes(o[fn]), st, ex.reads)
                 ELSE R(Raise("OSError"), st, ex.reads)
            ELSE R(None, st, ex.reads)
    IN read(fixPath(st, filename, prefix),
            exists(o, st, fixPath(st, filename, prefix), FALSE))

\* A variant of props that raises on a missing stream whatever the error behavior.
propsStrict(o, st) ==
    LET build(g) ==
            IF IsRaise(g.out) THEN g
            ELSE IF /\ g.out.kind = "none" \/ g.out.data[1] = <<>>
            THEN R(Raise("StandardViolationError"), st, g.reads)
            ELSE R(None, [st EXCEPT !.props =
                            [set |-> TRUE,
                             val |-> PropertiesStore(g.out,
                                        IF st.prefix = <<>> THEN "MESSAGE" ELSE "MESSAGE_EMBED")]],
                   g.reads)
    IN IF st.props.set THEN R(None, st, {})
       ELSE build(getStream(o, st, PropsName, TRUE))

\* cached_property props
props(o, st) ==
    LET build(g) ==
            IF IsRaise(g.out) THEN g
            ELSE IF /\ g.out.kind = "none" \/ g.out.data[1] = <<>>
                    /\ "STANDARDS_VIOLATION" \notin st.errorBehavior
            THEN R(Raise("StandardViolationError"), st, g.reads)
            ELSE R(None, [st EXCEPT !.props =
                            [set |-> TRUE,
                             val |-> PropertiesStore(g.out,
                                        IF st.prefix = <<>> THEN "MESSAGE" ELSE "MESSAGE_EMBED")]],
                   g.reads)
    IN IF st.props.set THEN R(None, st, {})
       ELSE build(getStream(o, st, PropsName, TRUE))

getPropertyVal(o, st, name, default) ==
    LET value(p) ==
            IF IsRaise(p.out) THEN p
            ELSE R(StoreGetValue(p.st.props.val, name, default), p.st, p.reads)
    IN value(props(o, st))

\* A variant of areStringsUnicode that tests bit 0x20000.
areStringsUnicodeWrongBit(o, st) ==
    LET test(g, b) ==
            IF IsRaise(g.out) THEN g
            ELSE R(Bool(b), [g.st EXCEPT !.areStringsUnicode = [set |-> TRUE, val |-> b]], g.reads)
        mask(g) == test(g, (g.out.data[1][1] \div 131072) % 2 # 0)
    IN IF st.areStringsUnicode.set THEN R(Bool(st.areStringsUnicode.val), st, {})
       ELSE mask(getPropertyVal(o, st, TagStoreSupportMask, IntVal(0)))

\* cached_property areStringsUnicode
areStringsUnicode(o, st) ==
    LET test(g, b) ==
            IF IsRaise(g.out) THEN g
            ELSE R(Bool(b), [g.st EXCEPT !.areStringsUnicode = [set |-> TRUE, val |-> b]], g.reads)
        mask(g) == test(g, (g.out.data[1][1] \div UnicodeBit) % 2 # 0)
    IN IF st.areStringsUnicode.set THEN R(Bool(st.areStringsUnicode.val), st, {})
       ELSE mask(getPropertyVal(o, st, TagStoreSupportMask, IntVal(0)))

\* A variant of stringEncoding whose default is cp1252.
stringEncodingCp1252(o, st) ==
    LET translate(u, v, enc) ==
            IF IsRaise(enc) THEN R(enc, v.st, u.reads \cup v.reads)
            ELSE R(enc, [v.st EXCEPT !.stringEncoding = enc.name], u.reads \cup v.reads)
        codepage(u, v) == translate(u, v, lookupCodePage(v.out.data[1][1]))
        legacy(u, p) ==
            IF IsRaise(p.out) THEN R(p.out, p.st, u.reads \cup p.reads)
            ELSE IF ~StoreContains(p.st.props.val, TagCodepage)
            THEN R(Enc("cp1252"), [p.st EXCEPT !.stringEncoding = "cp1252"],
                   u.reads \cup p.reads)
            ELSE codepage(u, getPropertyVal(o, p.st, TagCodepage, None))
        decide(u) ==
            IF IsRaise(u.out) THEN u
            ELSE IF u.out.kind = "true"
            THEN R(Enc("utf-16-le"), [u.st EXCEPT !.stringEncoding = "utf-16-le"], u.reads)
            ELSE legacy(u, props(o, u.st))
    IN IF st.stringEncoding # "unset" THEN R(Enc(st.stringEncoding), st, {})
       ELSE decide(areStringsUnicode(o, st))

\* property stringEncoding
stringEncoding(o, st) ==
    LET translate(u, v, enc) ==
            IF IsRaise(enc) THEN R(enc, v.st, u.reads \cup v.reads)
            ELSE R(enc, [v.st EXCEPT !.stringEncoding = enc.name], u.reads \cup v.reads)
        codepage(u, v) == translate(u, v, lookupCodePage(v.out.data[1][1]))
        legacy(u, p) ==
            IF IsRaise(p.out) THEN R(p.out, p.st, u.reads \cup p.reads)
            ELSE IF ~StoreContains(p.st.props.val, TagCodepage)
            THEN R(Enc("iso-8859-15"), [p.st EXCEPT !.stringEncoding = "iso-8859-15"],
                   u.reads \cup p.reads)
            ELSE codepage(u, getPropertyVal(o, p.st, TagCodepage, None))
        decide(u) ==
            IF IsRaise(u.out) THEN u
            ELSE IF u.out.kind = "true"
            THEN R(Enc("utf-16-le"), [u.st EXCEPT !.stringEncoding = "utf-16-le"], u.reads)
            ELSE legacy(u, props(o, u.st))
    IN IF st.stringEncoding # "unset" THEN R(Enc(st.stringEncoding), st, {})
       ELSE decide(areStringsUnicode(o, st))

\* utils.windowsUnicode
windowsUnicode(out) == IF out.kind = "bytes" THEN Decode("utf-16-le", out.data[1]) ELSE out

getStringStream(o, st, filename, prefix) ==
    LET decoded(u, tmp, e) ==
            IF IsRaise(e.out) THEN R(e.out, e.st, u.reads \cup tmp.reads \cup e.reads)
            ELSE R(Decode(e.out.name, tmp.out.data[1]), e.st, u.reads \cup tmp.reads \cup e.reads)
        legacy(u, tmp) ==
            IF tmp.out.kind # "bytes" THEN R(tmp.out, tmp.st, u.reads \cup tmp.reads)
            ELSE decoded(u, tmp, stringEncoding(o, tmp.st))
        unicode(u, g) == R(windowsUnicode(g.out), g.st, u.reads \cup g.reads)
        choose(fn, u) ==
            IF IsRaise(u.out) THEN u
            ELSE IF u.out.kind = "true"
            THEN unicode(u, getStream(o, u.st, fn \o <<"001F">>, FALSE))
            ELSE legacy(u, getStream(o, u.st, fn \o <<"001E">>, FALSE))
    IN choose(fixPath(st, filename, prefix), areStringsUnicode(o, st))

\* OleFileIO.listdir(streams, storages)
OleListdir(o, streams, storages) ==
    LET keep(e) == (streams /\ e \in DOMAIN o) \/ (storages /\ e \in OleStorages(o))
        segments(kept) == [i \in 1..Len(kept) |-> Split(kept[i])]
    IN segments(SelectSeq(AllEntries, keep))

listDir(o, st, streams, storages, includePrefix) ==
    LET key == <<streams, storages, includePrefix>>
        trim(split) == IF Last(split) = <<>> THEN DropLast(split) ELSE split
        inScope(x) == Len(x) > st.prefixLen /\ SubSeq(x, 1, st.prefixLen) = trim(Split(st.prefix))
        strip(scoped) ==
            IF includePrefix THEN scoped
            ELSE [i \in 1..Len(scoped) |-> SubSeq(scoped[i], st.prefixLen + 1, Len(scoped[i]))]
        memo(res) ==
            RL(res, [st EXCEPT !.listDirRes =
                        [k \in DOMAIN st.listDirRes \cup {key} |->
                            IF k = key THEN res ELSE st.listDirRes[k]]])
    IN IF key \in DOMAIN st.listDirRes THEN RL(st.listDirRes[key], st)
       ELSE IF st.prefix = <<>> THEN Listed(RL(OleListdir(o, streams, storages), st))
       ELSE Listed(memo(strip(SelectSeq(OleListdir(o, streams, storages), inScope))))

slistDir(o, st, streams, storages, includePrefix) ==
    LET strings(l) == [l EXCEPT !.list = [i \in 1..Len(l.list) |-> Join(l.list[i])]]
    IN strings(listDir(o, st, streams, storages, includePrefix))

\* str.endswith
EndsWith(s, p) == Len(s) >= Len(p) /\ SubSeq(s, Len(s) - Len(p) + 1, Len(s)) = p

\* The (found, number) pair existsTypedProperty returns.
FoundNumber(n) == [kind |-> "found", name |-> IF n > 0 THEN "true" ELSE "false", data |-> <<n>>]

RECURSIVE FoundStreams(_, _, _, _)
\* The first loop of existsTypedProperty: the names, at the level below the
\* prefix of the instance, that start with '__substg1.0_' + usableId.
FoundStreams(items, prefixLen, usableId, foundStreams) ==
    IF items = <<>> THEN foundStreams
    ELSE LET item == Head(items)
             hit == /\ Len(item) > prefixLen
                    /\ StartsWith(item[prefixLen + 1], <<SubstgTok>> \o usableId)
                    /\ \A y \in 1..Len(foundStreams) : foundStreams[y] # item[prefixLen + 1]
         IN  FoundStreams(Tail(items), prefixLen, usableId,
                          IF hit THEN Append(foundStreams, item[prefixLen + 1]) ELSE foundStreams)

\* existsTypedProperty(_id, location, _type, prefix, propertiesInstance).
\* location is <<>> for None; propertiesInstance is [given, store].  The
\* result carries whether listDir went to the container.
existsTypedProperty(o, st, id, location, type, prefix, propertiesInstance) ==
    LET usableId == IF type # "none" THEN <<id, type>> ELSE <<id>>
        \* Built from prefix and location, and not read afterwards.
        prefixList == (IF prefix THEN st.prefixList ELSE <<>>)
                        \o (IF location = <<>> THEN <<>> ELSE <<location>>)
        counted(store, foundStreams) ==
            Len(foundStreams)
            + Cardinality({x \in 1..Len(store) :
                            /\ StartsWith(store[x].tag, usableId)
                            /\ \A y \in 1..Len(foundStreams) :
                                    ~EndsWith(foundStreams[y], store[x].tag)})
        listed(store, p, l) ==
            [out |-> FoundNumber(counted(store, FoundStreams(l.list, st.prefixLen, usableId, <<>>))),
             st |-> l.st, reads |-> p.reads, listed |-> l.listed]
        with(p) ==
            IF IsRaise(p.out) THEN [out |-> p.out, st |-> p.st, reads |-> p.reads, listed |-> FALSE]
            ELSE listed(IF propertiesInstance.given THEN propertiesInstance.store
                        ELSE p.st.props.val,
                        p, listDir(o, p.st, TRUE, FALSE, TRUE))
    IN with(IF propertiesInstance.given THEN R(None, st, {}) ELSE props(o, st))

\* ------------------------------------------------------------ typed values
\* Type codes whose first hex digit is '1' (x[-4] == '1').
MultipleTypes == {"1002", "1003", "1004", "1005", "1007", "1014", "1040", "1048",
                  "101E", "101F", "1101", "1102"}
StringSetTypes == {"101E", "101F"}
PackedTypes == {"1002", "1003", "1004", "1005", "1007", "1014", "1040", "1048"}
\* constants.MULTIPLE_2_BYTES / _4_BYTES / _8_BYTES, 16 otherwise.
PackedWidth(type) ==
    IF type = "1002" THEN 2
    ELSE IF type \in {"1003", "1004"} THEN 4
    ELSE IF type \in {"1005", "1007", "1014", "1040"} THEN 8
    ELSE 16

RECURSIVE divide(_, _)
\* utils.divide: consecutive chunks of the given width.
divide(b, width) ==
    IF b = <<>> THEN <<>>
    ELSE IF Len(b) <= width THEN <<b>>
    ELSE <<SubSeq(b, 1, width)>> \o divide(SubSeq(b, width + 1, Len(b)), width)

RECURSIVE DecodeAll(_, _)
\* [x.decode(enc)[:-1] for x in extras]: the list, or the first error.
DecodeAll(enc, extras) ==
    IF extras = <<>> THEN StrList(<<>>)
    ELSE LET d == Decode(enc, Head(extras))
             rest == DecodeAll(enc, Tail(extras))
         IN IF IsRaise(d) THEN d
            ELSE IF IsRaise(rest) THEN rest
            ELSE StrList(<<DropLast(d.data[1])>> \o rest.data)

\* utils.parseType for the type codes a stream can carry.
parseType(type, contents, encoding, extras) ==
    IF type = "001F" THEN Decode("utf-16-le", contents)
    ELSE IF type = "001E" THEN Decode(encoding, contents)
    ELSE IF type = "101F" THEN DecodeAll("utf-16-le", extras)
    ELSE IF type = "101E" THEN DecodeAll(encoding, extras)
    ELSE IF type = "1102" THEN BytesList(extras)
    ELSE IF type \in PackedTypes
    THEN [kind |-> "intlist", name |-> "", data |-> [i \in 1..Len(extras) |-> <<LE(extras[i])>>]]
    ELSE Bytes(contents)

\* ---------------------------------------------------------- typed resolver
\* A variant of the loop body that decodes every multi-valued type.
TypedFoundAnySet(o, st, x, contents, reads) ==
    LET type == Last(x)
        finish(extras, rd, e) ==
            IF IsRaise(e.out) THEN F(FALSE, e.out, e.st, rd \cup e.reads)
            ELSE F(TRUE, parseType(type, contents, e.out.name, extras), e.st, rd \cup e.reads)
        collect(present) ==
            [i \in 1..Len(present) |-> getStream(o, st, present[i], FALSE).out.data[1]]
        siblings(first, names) ==
            finish(IF first.out.kind = "true"
                   THEN collect(SelectSeq(names, LAMBDA n : OleExists(o, n)))
                   ELSE <<>>,
                   reads \cup first.reads
                       \cup (IF first.out.kind = "true"
                             THEN {names[y] : y \in 1..Len(names)} ELSE {}),
                   stringEncoding(o, st))
        \* self.props[x[-8:]].realLength inside try / except Exception
        packed(p) ==
            finish(divide(contents, PackedWidth(type)), reads \cup p.reads,
                   stringEncoding(o, IF IsRaise(p.out) THEN st ELSE p.st))
    IN IF type \in StringSetTypes \cup {"1102"}
       THEN siblings(exists(o, st, x \o IndexSuffix(0), FALSE),
                     [y \in 1..(Len(contents) \div (IF type = "1102" THEN 8 ELSE 4)) |->
                         x \o IndexSuffix(y - 1)])
       ELSE IF type \in PackedTypes THEN packed(props(o, st))
       ELSE finish(<<>>, reads, stringEncoding(o, st))

\* Body of the loop of _getTypedStream once a non-empty stream x was read.
TypedFound(o, st, x, contents, reads) ==
    LET type == Last(x)
        finish(extras, rd, e) ==
            IF IsRaise(e.out) THEN F(FALSE, e.out, e.st, rd \cup e.reads)
            ELSE F(TRUE, parseType(type, contents, e.out.name, extras), e.st, rd \cup e.reads)
        collect(present) ==
            [i \in 1..Len(present) |-> getStream(o, st, present[i], FALSE).out.data[1]]
        siblings(first, names) ==
            finish(IF first.out.kind = "true"
                   THEN collect(SelectSeq(names, LAMBDA n : OleExists(o, n)))
                   ELSE <<>>,
                   reads \cup first.reads
                       \cup (IF first.out.kind = "true"
                             THEN {names[y] : y \in 1..Len(names)} ELSE {}),
                   stringEncoding(o, st))
        \* self.props[x[-8:]].realLength inside try / except Exception
        packed(p) ==
            finish(divide(contents, PackedWidth(type)), reads \cup p.reads,
                   stringEncoding(o, IF IsRaise(p.out) THEN st ELSE p.st))
    IN IF type \in StringSetTypes \cup {"1102"}
       THEN siblings(exists(o, st, x \o IndexSuffix(0), FALSE),
                     [y \in 1..(Len(contents) \div (IF type = "1102" THEN 8 ELSE 4)) |->
                         x \o IndexSuffix(y - 1)])
       ELSE IF type \in PackedTypes THEN packed(props(o, st))
       ELSE IF type \in MultipleTypes THEN F(FALSE, Raise("NotImplementedError"), st, reads)
       ELSE finish(<<>>, reads, stringEncoding(o, st))

RECURSIVE TypedLoop(_, _, _, _, _)
\* A variant of the loop that hands an empty stream to the decoder.
TypedLoopDecodingEmpty(o, st, filename, xs, reads) ==
    LET step(x, g) ==
            IF IsRaise(g.out) THEN F(FALSE, g.out, st, reads \cup g.reads)
            ELSE IF g.out.kind = "none"
            THEN TypedLoop(o, st, filename, Tail(xs), reads \cup g.reads)
            ELSE TypedFound(o, st, x, g.out.data[1], reads \cup g.reads)
        matches(x) == StartsWith(x, filename) /\ \A i \in 1..Len(x) : x[i] # "-"
    IN IF xs = <<>> THEN F(FALSE, None, st, reads)
       ELSE IF ~matches(Head(xs)) THEN TypedLoop(o, st, filename, Tail(xs), reads)
       ELSE step(Head(xs), getStream(o, st, Head(xs), FALSE))

\* for x in candidates: ...  of _getTypedStream
TypedLoop(o, st, filename, xs, reads) ==
    LET step(x, g) ==
            IF IsRaise(g.out) THEN F(FALSE, g.out, st, reads \cup g.reads)
            ELSE IF g.out.kind = "none"
            THEN TypedLoop(o, st, filename, Tail(xs), reads \cup g.reads)
            ELSE IF g.out.data[1] = <<>> THEN F(TRUE, None, st, reads \cup g.reads)
            ELSE TypedFound(o, st, x, g.out.data[1], reads \cup g.reads)
        matches(x) == StartsWith(x, filename) /\ \A i \in 1..Len(x) : x[i] # "-"
    IN IF xs = <<>> THEN F(FALSE, None, st, reads)
       ELSE IF ~matches(Head(xs)) THEN TypedLoop(o, st, filename, Tail(xs), reads)
       ELSE step(Head(xs), getStream(o, st, Head(xs), FALSE))

\* _getTypedStream; _type is "none" when the caller did not pin the type.
getTypedStream(o, st, filename, prefix, type) ==
    LET scan(fn, l) == TypedLoop(o, l.st, fn, l.list, {})
        exact(fn) == TypedLoop(o, st, fn, <<fn \o <<type>>>>, {})
    IN IF type # "none" THEN exact(fixPath(st, filename, prefix))
       ELSE scan(fixPath(st, filename, prefix), slistDir(o, st, TRUE, FALSE, TRUE))

NotFound == [kind |-> "notfound", name |-> "", data |-> <<>>]

\* _getTypedProperty
getTypedProperty(o, st, propertyID, type) ==
    LET found(ret) ==
            IF IsRaise(ret.out) THEN F(FALSE, ret.out, ret.st, ret.reads)
            ELSE IF ret.out.kind = "notfound" THEN F(FALSE, None, ret.st, ret.reads)
            ELSE F(TRUE, ret.out, ret.st, ret.reads)
    IN found(getPropertyVal(o, st, IF type # "none" THEN <<propertyID, type>> ELSE <<propertyID>>,
                            NotFound))

\* A variant of _getTypedData that asks the property store first.
getTypedDataRecordFirst(o, st, id, type, prefix) ==
    LET stream(p, s) == R(s.out, s.st, p.reads \cup s.reads)
        record(p) ==
            IF p.found \/ IsRaise(p.out) THEN R(p.out, p.st, p.reads)
            ELSE stream(p, getTypedStream(o, p.st, <<SubstgTok, id>>, prefix, type))
    IN record(getTypedProperty(o, st, id, type))

\* _getTypedData
getTypedData(o, st, id, type, prefix) ==
    LET record(s, p) == R(p.out, p.st, s.reads \cup p.reads)
        stream(s) ==
            IF s.found \/ IsRaise(s.out) THEN R(s.out, s.st, s.reads)
            ELSE record(s, getTypedProperty(o, s.st, id, type))
    IN stream(getTypedStream(o, st, <<SubstgTok, id>>, prefix, type))

\* ------------------------------------------------------ multi-valued sets
\* ret[:index] for the first index whose element is None, else ret.
UpToFirstNone(ret) ==
    IF \E i \in 1..Len(ret) : ret[i].kind = "none"
    THEN SubSeq(ret, 1, (CHOOSE i \in 1..Len(ret) :
                            /\ ret[i].kind = "none"
                            /\ \A j \in 1..(i - 1) : ret[j].kind # "none") - 1)
    ELSE ret

getMultipleBinary(o, st, filename, prefix) ==
    LET values(ret) == BytesList([i \in 1..Len(ret) |-> ret[i].data[1]])
        gather(multStream, got) ==
            R(values(UpToFirstNone([x \in 1..Len(got) |-> got[x].out])), st,
              multStream.reads \cup UNION {got[x].reads : x \in 1..Len(got)})
        sized(fn, multStream) ==
            IF multStream.out.kind # "bytes" THEN multStream
            ELSE IF Len(multStream.out.data[1]) = 0 THEN R(BytesList(<<>>), st, multStream.reads)
            ELSE IF Len(multStream.out.data[1]) % 8 # 0
            THEN R(Raise("StandardViolationError"), st, multStream.reads)
            ELSE gather(multStream,
                        [x \in 1..(Len(multStream.out.data[1]) \div 8) |->
                            getStream(o, st, fn \o IndexSuffix(x - 1), TRUE)])
        atName(fn) == sized(fn, getStream(o, st, fn, TRUE))
    IN atName(fixPath(st, filename, prefix) \o <<"1102">>)

RECURSIVE DecodeItems(_, _, _, _, _)
\* for index, item in enumerate(ret): ...  of getMultipleString
DecodeItems(o, st, ret, done, reads) ==
    LET store(e, d) ==
            IF IsRaise(d) THEN R(d, e.st, reads \cup e.reads)
            ELSE DecodeItems(o, e.st, ret, Append(done, DropLast(d.data[1])), reads \cup e.reads)
        decode(item, e) ==
            IF IsRaise(e.out) THEN R(e.out, e.st, reads \cup e.reads)
            ELSE store(e, Decode(e.out.name, item.data[1]))
    IN IF Len(done) = Len(ret) THEN R(StrList(done), st, reads)
       ELSE IF ret[Len(done) + 1].kind = "none" THEN R(StrList(done), st, reads)
       ELSE decode(ret[Len(done) + 1], stringEncoding(o, st))

getMultipleString(o, st, filename, prefix) ==
    LET gather(u, multStream, got) ==
            DecodeItems(o, u.st, [x \in 1..Len(got) |-> got[x].out], <<>>,
                        u.reads \cup multStream.reads \cup UNION {got[x].reads : x \in 1..Len(got)})
        sized(u, fn, multStream) ==
            IF IsRaise(multStream.out) THEN R(multStream.out, u.st, u.reads \cup multStream.reads)
            ELSE IF multStream.out.kind = "none"
            THEN R(StrList(<<>>), u.st, u.reads \cup multStream.reads)
            ELSE IF Len(multStream.out.data[1]) = 0
            THEN R(StrList(<<>>), u.st, u.reads \cup multStream.reads)
            ELSE IF Len(multStream.out.data[1]) % 4 # 0
            THEN R(Raise("StandardViolationError"), u.st, u.reads \cup multStream.reads)
            ELSE gather(u, multStream,
                        [x \in 1..(Len(multStream.out.data[1]) \div 4) |->
                            getStream(o, u.st, fn \o IndexSuffix(x - 1), TRUE)])
        named(u, fn) == sized(u, fn, getStream(o, u.st, fn, TRUE))
        \* fixPath(filename, prefix) + '101F' if areStringsUnicode else '101E'
        choose(u) ==
            IF IsRaise(u.out) THEN u
            ELSE named(u, IF u.out.kind = "true"
                          THEN fixPath(st, filename, prefix) \o <<"101F">>
                          ELSE <<"101E">>)
    IN choose(areStringsUnicode(o, st))

\* A variant of getSingleOrMultipleBinary that falls back on an empty single stream.
getSingleOrMultipleBinaryNonEmpty(o, st, filename, prefix) ==
    LET multiple(ret, m) == R(m.out, m.st, ret.reads \cup m.reads)
        single(fn, ret) ==
            IF ret.out.kind # "none" /\ ret.out.data # <<<<>>>> THEN ret
            ELSE multiple(ret, getMultipleBinary(o, st, fn, FALSE))
        fixed(fn) == single(fn, getStream(o, st, fn \o <<"0102">>, FALSE))
    IN fixed(fixPath(st, filename, prefix))

getSingleOrMultipleBinary(o, st, filename, prefix) ==
    LET multiple(ret, m) == R(m.out, m.st, ret.reads \cup m.reads)
        single(fn, ret) ==
            IF ret.out.kind # "none" THEN ret
            ELSE multiple(ret, getMultipleBinary(o, st, fn, FALSE))
        fixed(fn) == single(fn, getStream(o, st, fn \o <<"0102">>, FALSE))
    IN fixed(fixPath(st, filename, prefix))

getSingleOrMultipleString(o, st, filename, prefix) ==
    LET multiple(ret, m) == R(m.out, m.st, ret.reads \cup m.reads)
        single(fn, ret) ==
            IF ret.out.kind # "none" THEN ret
            ELSE multiple(ret, getMultipleString(o, ret.st, fn, FALSE))
        fixed(fn) == single(fn, getStringStream(o, st, fn, FALSE))
    IN fixed(fixPath(st, filename, prefix))

sExists(o, st, inp, prefix) ==
    LET either(a, b) ==
            IF a.out.kind = "true" THEN a
            ELSE R(b.out, st, a.reads \cup b.reads)
        fixed(fn) == either(exists(o, st, fn \o <<"001F">>, TRUE),
                            exists(o, st, fn \o <<"001E">>, TRUE))
    IN fixed(fixPath(st, inp, prefix))

\* ------------------------------------------------------------ construction
\* One event of the close log: an entity ran the body of close(), or the
\* container handle was closed.
Closed(kind, who) == [kind |-> kind, who |-> who]

RECURSIVE CloseAll(_, _, _)
RECURSIVE close(_, _)
\* A variant of close that leaves the embedded messages open.
closeWithoutChildren(st, oleIsOpen) ==
    LET finish(kids) ==
            [out |-> None,
             st |-> [st EXCEPT !.open = "false", !.attachments.val = kids.atts],
             oleIsOpen |-> IF st.oleOwner THEN FALSE ELSE oleIsOpen,
             log |-> kids.log
                        \o (IF st.oleOwner THEN <<Closed("container", <<>>)>> ELSE <<>>)
                        \o <<Closed("entity", st.prefix)>>]
    IN IF st.open = "unset"
       THEN [out |-> Raise("AttributeError"), st |-> st, oleIsOpen |-> oleIsOpen, log |-> <<>>]
       ELSE IF st.open = "true"
       THEN finish([atts |-> st.attachments.val, log |-> <<>>])
       ELSE [out |-> None, st |-> st, oleIsOpen |-> oleIsOpen, log |-> <<>>]

\* A variant of close that closes the container whoever owns it.
closeAnyOwner(st, oleIsOpen) ==
    LET finish(kids) ==
            [out |-> None,
             st |-> [st EXCEPT !.open = "false", !.attachments.val = kids.atts],
             oleIsOpen |-> FALSE,
             log |-> kids.log
                        \o <<Closed("container", <<>>)>>
                        \o <<Closed("entity", st.prefix)>>]
    IN IF st.open = "unset"
       THEN [out |-> Raise("AttributeError"), st |-> st, oleIsOpen |-> oleIsOpen, log |-> <<>>]
       ELSE IF st.open = "true"
       THEN finish(IF st.attachmentsReady THEN CloseAll(st.attachments.val, <<>>, <<>>)
                   ELSE [atts |-> st.attachments.val, log |-> <<>>])
       ELSE [out |-> None, st |-> st, oleIsOpen |-> oleIsOpen, log |-> <<>>]

\* close(): raises AttributeError while __open was never assigned.  The
\* embedded messages of the materialized attachments are closed first, then
\* the container when the entity owns it.  oleIsOpen is the state of the
\* shared container handle; log lists what was closed, in order.
close(st, oleIsOpen) ==
    LET finish(kids) ==
            [out |-> None,
             st |-> [st EXCEPT !.open = "false", !.attachments.val = kids.atts],
             oleIsOpen |-> IF st.oleOwner THEN FALSE ELSE oleIsOpen,
             log |-> kids.log
                        \o (IF st.oleOwner THEN <<Closed("container", <<>>)>> ELSE <<>>)
                        \o <<Closed("entity", st.prefix)>>]
    IN IF st.open = "unset"
       THEN [out |-> Raise("AttributeError"), st |-> st, oleIsOpen |-> oleIsOpen, log |-> <<>>]
       ELSE IF st.open = "true"
       THEN finish(IF st.attachmentsReady THEN CloseAll(st.attachments.val, <<>>, <<>>)
                   ELSE [atts |-> st.attachments.val, log |-> <<>>])
       ELSE [out |-> None, st |-> st, oleIsOpen |-> oleIsOpen, log |-> <<>>]

\* for attachment in self.attachments: if attachment.type == 'msg':
\* attachment.data.close()
CloseAll(atts, done, log) ==
    LET child(c) == CloseAll(Tail(atts), Append(done, [Head(atts) EXCEPT !.data = c.st]),
                             log \o c.log)
    IN IF atts = <<>> THEN [atts |-> done, log |-> log]
       ELSE IF Head(atts).type = "msg" THEN child(close(Head(atts).data, TRUE))
       ELSE CloseAll(Tail(atts), Append(done, Head(atts)), log)

RECURSIVE Dedup(_, _)
\* The first segments that start with '__attach', without repetition.
Dedup(dirs, acc) ==
    IF dirs = <<>> THEN acc
    ELSE IF Head(Head(dirs)[1]) = "__attach" /\ \A i \in 1..Len(acc) : acc[i] # Head(dirs)[1]
    THEN Dedup(Tail(dirs), Append(acc, Head(dirs)[1]))
    ELSE Dedup(Tail(dirs), acc)

\* The storage that holds the message embedded in an attachment.
EmbeddedMsgName == <<SubstgTok, "3701", "000D">>
\* One attachment: its storage, its type and, for type 'msg', the entity of
\* the embedded message (the unbuilt entity stands for any other data).
Attachment(dir, type, data) == [dir |-> dir, type |-> type, data |-> data]

RECURSIVE attachments(_, _)
RECURSIVE MsgInit(_, _, _, _, _, _, _)

\* The injected initAttachmentFunc(msg, dir).  st.initAttachmentFunc is the
\* set of storages for which it raises; for a storage that holds an embedded
\* message it builds the child entity on the parent's container, and an
\* error of that construction leaves the factory.
initAttachment(o, st, dir) ==
    LET built(c) ==
            IF IsRaise(c.out) THEN [out |-> c.out, att |-> Attachment(dir, "msg", c.st), calls |-> c.calls]
            ELSE [out |-> None, att |-> Attachment(dir, "msg", c.st), calls |-> c.calls]
    IN IF dir \in st.initAttachmentFunc
       THEN [out |-> Raise("AttachmentError"), att |-> Attachment(dir, "data", NewMsg), calls |-> <<>>]
       ELSE IF OleExists(o, st.prefix \o dir \o <<Sep>> \o EmbeddedMsgName)
       THEN built(MsgInit(o, TRUE, st.prefixList \o <<dir, EmbeddedMsgName>>, st.errorBehavior,
                          st.attachmentsDelayed, st.overrideEncoding, st.initAttachmentFunc))
       ELSE [out |-> None, att |-> Attachment(dir, "data", NewMsg), calls |-> <<>>]

RECURSIVE CreateAll(_, _, _, _, _)
\* for attachmentDir in attachmentDirs:
\*     attachments.append(self.initAttachmentFunc(self, attachmentDir))
\* calls lists the storages the factory was invoked for, by full path.
CreateAll(o, st, dirs, atts, calls) ==
    LET next(a, called) ==
            IF IsRaise(a.out) THEN [out |-> a.out, atts |-> atts, calls |-> called]
            ELSE CreateAll(o, st, Tail(dirs), Append(atts, a.att), called)
        invoke(a) == next(a, calls \o <<st.prefix \o Head(dirs)>> \o a.calls)
    IN IF dirs = <<>> THEN [out |-> None, atts |-> atts, calls |-> calls]
       ELSE invoke(initAttachment(o, st, Head(dirs)))

\* A variant of attachments that never sets attachmentsReady.
attachmentsNeverReady(o, st) ==
    LET create(l, made) ==
            IF IsRaise(made.out) THEN [out |-> made.out, st |-> l.st, reads |-> {}, calls |-> made.calls]
            ELSE [out |-> None,
                  st |-> [l.st EXCEPT !.attachments = [set |-> TRUE, val |-> made.atts]],
                  reads |-> {}, calls |-> made.calls]
        discover(l) == create(l, CreateAll(o, l.st, Dedup(l.list, <<>>), <<>>, <<>>))
    IN IF st.attachments.set THEN [out |-> None, st |-> st, reads |-> {}, calls |-> <<>>]
       ELSE discover(listDir(o, st, FALSE, TRUE, FALSE))

\* cached_property attachments: nothing is cached when the factory raises.
attachments(o, st) ==
    LET create(l, made) ==
            IF IsRaise(made.out) THEN [out |-> made.out, st |-> l.st, reads |-> {}, calls |-> made.calls]
            ELSE [out |-> None,
                  st |-> [l.st EXCEPT !.attachmentsReady = TRUE,
                                      !.attachments = [set |-> TRUE, val |-> made.atts]],
                  reads |-> {}, calls |-> made.calls]
        discover(l) == create(l, CreateAll(o, l.st, Dedup(l.list, <<>>), <<>>, <<>>))
    IN IF st.attachments.set THEN [out |-> None, st |-> st, reads |-> {}, calls |-> <<>>]
       ELSE discover(listDir(o, st, FALSE, TRUE, FALSE))

\* MSGFile.__init__ after the container handle was obtained: the body of
\* the try block, then the except clause that closes and re-raises.
\* Yields the outcome (None, or the exception that propagates), the entity,
\* the state of the container handle, the factory invocations and what the
\* except clause closed.
MsgInit(o, parentMsg, prefixList, errorBehavior, delayAttachments, overrideEncoding, failing) ==
    LET Result(out, c, reads, calls) ==
            [out |-> out, st |-> c.st, oleIsOpen |-> c.oleIsOpen, reads |-> reads,
             calls |-> calls, log |-> c.log]
        Ready(st, reads, calls) ==
            [out |-> None, st |-> st, oleIsOpen |-> TRUE, reads |-> reads,
             calls |-> calls, log |-> <<>>]
        eager(att, reads) ==
            IF IsRaise(att.out) THEN Result(att.out, close(att.st, TRUE), reads, att.calls)
            ELSE Ready(att.st, reads, att.calls)
        opened(st, reads) ==
            IF delayAttachments THEN Ready(st, reads, <<>>)
            ELSE eager(attachments(o, st), reads)
        withName(fname) ==
            IF IsRaise(fname.out) THEN Result(fname.out, close(fname.st, TRUE), fname.reads, <<>>)
            ELSE opened([fname.st EXCEPT !.filename = fname.out, !.open = "true"], fname.reads)
        begin(st) ==
            IF prefixList = <<>> THEN opened([st EXCEPT !.open = "true"], {})
            ELSE withName(getStringStream(o, st,
                           Join(Append(DropLast(prefixList), <<SubstgTok, "3001">>)), FALSE))
        lookedUp(st) ==
            IF overrideEncoding # "none" /\ overrideEncoding \notin KnownCodecs
            THEN [out |-> Raise("LookupError"), st |-> st, oleIsOpen |-> parentMsg,
                  reads |-> {}, calls |-> <<>>, log |-> <<>>]
            ELSE begin(st)
    IN lookedUp([NewMsg EXCEPT
                 !.parentMsg = parentMsg,
                 !.errorBehavior = errorBehavior,
                 !.initAttachmentFunc = failing,
                 !.attachmentsDelayed = delayAttachments,
                 !.overrideEncoding = overrideEncoding,
                 !.stringEncoding = IF overrideEncoding # "none" THEN overrideEncoding ELSE "unset",
                 !.oleOwner = ~parentMsg,
                 !.prefix = IF prefixList = <<>> THEN <<>> ELSE Join(prefixList) \o <<Sep>>,
                 !.prefixList = prefixList,
                 !.prefixLen = Len(prefixList)])

\* The Named service of the entity with the given prefix.
NamedOf(who) == [kind |-> "named", name |-> "", data |-> <<who>>]

\* A variant of named that builds a service of its own for an embedded entity.
namedOwn(st, par) ==
    LET cache(v, p) ==
            [out |-> NamedOf(v), st |-> [st EXCEPT !.named = [set |-> TRUE, val |-> v]], par |-> p]
        parents(v) == cache(v, [par EXCEPT !.named = [set |-> TRUE, val |-> v]])
    IN IF st.named.set THEN [out |-> NamedOf(st.named.val), st |-> st, par |-> par]
       ELSE IF st.parentMsg
       THEN IF ~par.alive THEN [out |-> Raise("ReferenceError"), st |-> st, par |-> par]
            ELSE cache(st.prefix, par)
       ELSE cache(st.prefix, par)

\* cached_property named.  par is the parent the weak reference __parentMsg
\* points to: whether it is still alive, and its own cached named.
named(st, par) ==
    LET cache(v, p) ==
            [out |-> NamedOf(v), st |-> [st EXCEPT !.named = [set |-> TRUE, val |-> v]], par |-> p]
        parents(v) == cache(v, [par EXCEPT !.named = [set |-> TRUE, val |-> v]])
    IN IF st.named.set THEN [out |-> NamedOf(st.named.val), st |-> st, par |-> par]
       ELSE IF st.parentMsg
       THEN IF ~par.alive THEN [out |-> Raise("ReferenceError"), st |-> st, par |-> par]
            ELSE parents(IF par.named.set THEN par.named.val ELSE par.prefix)
       ELSE cache(st.prefix, par)

\* ---------------------------------------------------------------- recipient
\* [self.__dir, msgPathToString(filename)], as the message joins the list.
RecipPath(dir, filename) == dir \o <<Sep>> \o filename

\* A Recipient before __init__.
NewRecipient == [made |-> FALSE, dir |-> <<>>, props |-> <<>>, msgAlive |-> TRUE]

\* The builtin function id, which is what the name id denotes inside
\* Recipient._getTypedData (its parameter is called _id).
BuiltinId == [kind |-> "builtin", name |-> "id", data |-> <<>>]

\* utils.verifyPropertyId: a string of four hexadecimal digits passes.  For
\* a value that is no string both outcomes are kept: lenient tells whether
\* the validation lets it through.
verifyPropertyId(v, lenient) ==
    IF v.kind = "str" THEN None
    ELSE IF lenient THEN None
    ELSE Raise("InvaildPropertyIdError")

\* A call msg._getTypedStream(*args) with positional arguments: the method
\* takes filename, prefix and _type, and a call with more arguments raises
\* TypeError before the body runs.
CallGetTypedStream(o, st, args) ==
    IF Len(args) > 3 THEN F(FALSE, Raise("TypeError"), st, {})
    ELSE getTypedStream(o, st, args[1],
                        IF Len(args) >= 2 THEN args[2] ELSE TRUE,
                        IF Len(args) >= 3 THEN args[3] ELSE "none")

\* The failure of every accessor of a recipient whose message was collected.
MsgCollected(st) == R(Raise("ReferenceError"), st, {})

\* Recipient.exists
RecipientExists(o, st, rc, filename) ==
    IF ~rc.msgAlive THEN MsgCollected(st)
    ELSE exists(o, st, RecipPath(rc.dir, filename), TRUE)

\* Recipient.existsTypedProperty
RecipientExistsTypedProperty(o, st, rc, id, type) ==
    IF ~rc.msgAlive
    THEN [out |-> Raise("ReferenceError"), st |-> st, reads |-> {}, listed |-> FALSE]
    ELSE existsTypedProperty(o, st, id, rc.dir, type, TRUE, [given |-> TRUE, store |-> rc.props])

\* Recipient.getStream
RecipientGetStream(o, st, rc, filename) ==
    IF ~rc.msgAlive THEN MsgCollected(st)
    ELSE getStream(o, st, RecipPath(rc.dir, filename), TRUE)

\* Recipient.getStringStream
RecipientGetStringStream(o, st, rc, filename) ==
    IF ~rc.msgAlive THEN MsgCollected(st)
    ELSE getStringStream(o, st, RecipPath(rc.dir, filename), TRUE)

\* Recipient._getTypedStream: the recipient itself is handed over as the
\* first of four positional arguments.
RecipientGetTypedStream(o, st, rc, filename, type) ==
    IF ~rc.msgAlive THEN F(FALSE, Raise("ReferenceError"), st, {})
    ELSE CallGetTypedStream(o, st, <<rc, RecipPath(rc.dir, filename), TRUE, type>>)

\* The types whose records are FixedLengthProp instances.
FixedLengthTypes ==
    {"0002", "0003", "0004", "0005", "0006", "0007", "000A", "000B", "0014", "0040", "0048"}
IsFixedLengthProp(slot) == slot.tag[2] \in FixedLengthTypes

\* Recipient._getTypedProperty on the recipient's own store: the record of
\* the tag, or the first fixed-length record of the id.
RecipientGetTypedProperty(st, rc, propertyID, type) ==
    LET hits == SelectSeq(rc.props,
                    LAMBDA slot : /\ slot.tag[1] = propertyID
                                  /\ IsFixedLengthProp(slot)
                                  /\ type # "none" => slot.tag[2] = type)
        tagged == SelectSeq(rc.props, LAMBDA slot : slot.tag = <<propertyID, type>>)
    IN IF type # "none" /\ (tagged = <<>> \/ ~IsFixedLengthProp(Head(tagged)))
       THEN F(FALSE, None, st, {})
       ELSE IF hits = <<>> THEN F(FALSE, None, st, {})
       ELSE F(TRUE, IntVal(LE(SubSeq(Head(hits).raw, 1, 4))), st, {})

\* Recipient._getTypedData
RecipientGetTypedData(o, st, rc, id, type, lenient) ==
    LET record(s, p) == R(IF p.found THEN p.out ELSE None, p.st, s.reads \cup p.reads)
        stream(s) ==
            IF s.found \/ IsRaise(s.out) THEN R(s.out, s.st, s.reads)
            ELSE record(s, RecipientGetTypedProperty(s.st, rc, id, type))
        verified(v) ==
            IF IsRaise(v) THEN R(v, st, {})
            ELSE stream(RecipientGetTypedStream(o, st, rc, <<SubstgTok, id>>, type))
    IN verified(verifyPropertyId(BuiltinId, lenient))

\* The recipient types, the values of the low four bits of the flags.
RecipientTypes == {0, 1, 2, 3}

\* Recipient.__init__ for the storage dir of the message st.
RecipientInit(o, st, dir) ==
    LET rc0 == [NewRecipient EXCEPT !.dir = dir]
        out(res, s, rc, reads) == [out |-> res, st |-> s, recip |-> rc, reads |-> reads]
        typed(rc, n, reads) ==
            IF (StoreGetValue(rc.props, <<"0C15", "0003">>, IntVal(0)).data[1][1] % 16)
                    \notin RecipientTypes
            THEN out(Raise("ValueError"), n.st, rc0, reads \cup n.reads)
            ELSE out(None, n.st, [rc EXCEPT !.made = TRUE], reads \cup n.reads)
        name(rc, e, reads) ==
            IF IsRaise(e.out) THEN out(e.out, e.st, rc0, reads \cup e.reads)
            ELSE (LET named3001(n) ==
                        IF IsRaise(n.out) THEN out(n.out, n.st, rc0, reads \cup e.reads \cup n.reads)
                        ELSE typed(rc, n, reads \cup e.reads)
                  IN named3001(RecipientGetStringStream(o, e.st, rc0, <<SubstgTok, "3001">>)))
        email(rc, g, e) ==
            IF IsRaise(e.out) THEN out(e.out, e.st, rc0, g.reads \cup e.reads)
            ELSE IF e.out.kind = "none" \/ e.out = Str(<<>>)
            THEN name(rc, RecipientGetStringStream(o, e.st, rc0, <<SubstgTok, "3003">>),
                      g.reads \cup e.reads)
            ELSE name(rc, e, g.reads)
        store(x, g) ==
            IF IsRaise(g.out) THEN out(g.out, g.st, rc0, x.reads \cup g.reads)
            ELSE email([rc0 EXCEPT !.props = PropertiesStore(g.out, "RECIPIENT")],
                       [g EXCEPT !.reads = x.reads \cup g.reads],
                       RecipientGetStringStream(o, g.st, rc0, <<SubstgTok, "39FE">>))
        checked(x) ==
            IF IsRaise(x.out) THEN out(x.out, x.st, rc0, x.reads)
            ELSE IF x.out.kind # "true" /\ "STANDARDS_VIOLATION" \notin st.errorBehavior
            THEN out(Raise("StandardViolationError"), x.st, rc0, x.reads)
            ELSE store(x, RecipientGetStream(o, x.st, rc0, PropsName))
    IN checked(RecipientExists(o, st, rc0, PropsName))

\* ------------------------------------------------------- custom attachments
\* The values a caller hands to registerHandler: a class or an instance of a
\* class; the classes are subclasses of CustomAttachmentHandler or not.
HandlerClasses == {"OutlookImageDIB", "HandlerA", "HandlerB"}
OtherClasses == {"dict"}
HandlerValues == [isType : BOOLEAN, cls : HandlerClasses \cup OtherClasses]
Class(c) == [isType |-> TRUE, cls |-> c]
\* issubclass(handler, CustomAttachmentHandler)
issubclass(handler) == handler.cls \in HandlerClasses

\* _knownHandlers once the module is imported: the built-in handler has
\* registered itself.
knownHandlersAtImport == <<Class("OutlookImageDIB")>>

\* registerHandler(handler), on the registry known.
registerHandler(known, handler) ==
    IF ~handler.isType THEN [out |-> Raise("ValueError"), known |-> known]
    ELSE IF ~issubclass(handler) THEN [out |-> Raise("ValueError"), known |-> known]
    ELSE [out |-> None, known |-> Append(known, handler)]

\* handler.isCorrectHandler(attachment): the attachment carries the classes
\* that recognise its data.
isCorrectHandler(handler, attachment) == handler.cls \in attachment.accepted
\* handler(attachment)
NewHandler(handler) == [kind |-> "instance", name |-> handler.cls, data |-> <<>>]

RECURSIVE getHandler(_, _)
getHandlerLastMatch(handlers, attachment) ==
    IF handlers = <<>>
    THEN [out |-> Raise("NotImplementedError"), made |-> <<>>]
    ELSE LET r == getHandler(Tail(handlers), attachment)
         IN  IF ~IsRaise(r.out) \/ ~isCorrectHandler(Head(handlers), attachment) THEN r
             ELSE [out |-> NewHandler(Head(handlers)), made |-> <<Head(handlers)>>]
\* getHandler(attachment) over the handlers that are left to try: the
\* outcome and the handlers instantiated.
getHandler(handlers, attachment) ==
    IF handlers = <<>>
    THEN [out |-> Raise("NotImplementedError"), made |-> <<>>]
    ELSE IF isCorrectHandler(Head(handlers), attachment)
    THEN [out |-> NewHandler(Head(handlers)), made |-> <<Head(handlers)>>]
    ELSE getHandler(Tail(handlers), attachment)

\* A CustomAttachment before __init__.  cid and name are the properties of
\* the attachment, handlerName the name property of its handler.
NewCustomAttachment ==
    [made |-> FALSE, accepted |-> {}, cid |-> None, name |-> None,
     handlerName |-> None, customHandler |-> None,
     randomName |-> [set |-> FALSE, val |-> <<>>]]

\* CustomAttachment.__init__ on an attachment with the given properties.
CustomAttachmentInit(known, accepted, cid, name, handlerName) ==
    LET att == [NewCustomAttachment EXCEPT !.accepted = accepted, !.cid = cid, !.name = name]
        r == getHandler(known, att)
    IN  IF IsRaise(r.out) THEN [out |-> r.out, att |-> att, made |-> r.made]
        ELSE [out |-> None,
              att |-> [att EXCEPT !.made = TRUE, !.customHandler = r.out,
                                  !.handlerName = handlerName],
              made |-> r.made]

\* Truth value of a str or None.
Truthy(v) == v.kind = "str" /\ v.data[1] # <<>>

\* constants.RE_INVALID_FILENAME_CHARACTERS
InvalidFilenameCharacters == {"\\", "/", ":", "*", "?", "\"", "<", ">", "|"}

\* regenerateRandomName(), drawing the name fresh.
regenerateRandomName(att, fresh) == [att EXCEPT !.randomName = [set |-> TRUE, val |-> fresh]]
\* The randomFilename property.
randomFilename(att, fresh) ==
    IF att.randomName.set THEN [out |-> Str(att.randomName.val), att |-> att]
    ELSE LET a == regenerateRandomName(att, fresh)
         IN  [out |-> Str(a.randomName.val), att |-> a]

\* getFilename(customFilename = ..., contentId = ...)
getFilename(att, customFilename, contentId, fresh) ==
    IF Truthy(customFilename)
    THEN IF \E i \in DOMAIN customFilename.data[1] :
                customFilename.data[1][i] \in InvalidFilenameCharacters
         THEN [out |-> Raise("ValueError"), att |-> att]
         ELSE [out |-> customFilename, att |-> att]
    ELSE LET fromCid == IF contentId THEN att.cid ELSE None
             \* 'filename = self.customHandler.name' replaces what fromCid held.
             fromHandler == att.handlerName
             fromName == IF ~Truthy(fromHandler) THEN att.name ELSE fromHandler
         IN  IF ~Truthy(fromName) THEN randomFilename(att, fresh)
             ELSE [out |-> fromName, att |-> att]

\* ------------------------------------------------------ container families
\* One 16-byte slot of the property stream.
PropSlot(idHi, idLo, typeHi, typeLo, value) ==
    <<typeLo, typeHi, idLo, idHi, 6, 0, 0, 0>> \o value \o <<0, 0, 0, 0>>
SlotSupportMask(value) == PropSlot(52, 13, 0, 3, value)
SlotCodepage(value) == PropSlot(63, 253, 0, 3, value)

\* The property stream of each kind: "U" has the Unicode bit (0x40000) set,
\* "L" has a support mask with the bit clear and no codepage, "C" names
\* codepage 1252, "X" a codepage the table does not know, and "R" is "L"
\* with an inline record '12340003' of value 7.
SlotInline(value) == PropSlot(18, 52, 0, 3, value)
PropKinds == {"absent", "U", "L", "C", "X", "R"}
PropsBytes(kind, embedded) ==
    [i \in 1..(IF embedded THEN 24 ELSE 32) |-> 7]
    \o (IF kind = "U" THEN SlotSupportMask(<<121, 0, 4, 0>>)
        ELSE IF kind = "L" THEN SlotSupportMask(<<121, 0, 3, 0>>)
        ELSE IF kind = "C" THEN SlotCodepage(<<228, 4, 0, 0>>)
        ELSE IF kind = "R" THEN SlotSupportMask(<<121, 0, 3, 0>>) \o SlotInline(<<7, 0, 0, 0>>)
        ELSE SlotSupportMask(<<121, 0, 3, 0>>) \o SlotCodepage(<<15, 39, 0, 0>>))

\* Contents of the single-valued streams and of the indexed siblings.
SingleContent(type) ==
    IF type = "001F" THEN <<72, 0, 172, 32>>
    ELSE IF type = "001E" THEN <<72, 164>>
    ELSE <<9, 9>>
SiblingContent(type, y) ==
    IF type = "1102" THEN (IF y = 0 THEN <<1, 2, 3, 4, 5>> ELSE IF y = 1 THEN <<6, 7, 8>> ELSE <<10 + y>>)
    ELSE IF type = "101F" THEN <<65 + y, 0, 0, 0>>
    ELSE <<164, 65 + y, 0>>
RecordWidth(type) == IF type = "1102" THEN 8 ELSE 4
\* Lengths of a multi-valued container stream: whole records, and the same
\* two bytes short.
SetLengths(type) ==
    {0, RecordWidth(type) * MaxRecords - 2} \cup {RecordWidth(type) * k : k \in 1..MaxRecords}
SingleOf(type) == IF type = "1102" THEN "0102" ELSE IF type = "101F" THEN "001F" ELSE "001E"

\* A scope's content is a set of <<name, bytes>> pairs with distinct names.
PropsPart(kind, embedded) ==
    IF kind = "absent" THEN {} ELSE {<<PropsName, PropsBytes(kind, embedded)>>}
SinglePart(id, type, c) ==
    IF c = "absent" THEN {}
    ELSE {<<StreamName(id, type), IF c = "empty" THEN <<>> ELSE SingleContent(type)>>}
SetPart(id, type, len, sibs) ==
    {<<StreamName(id, type), Zeros(len)>>}
        \cup {<<SiblingName(id, type, y), SiblingContent(type, y)>> : y \in sibs}

Presence == {"absent", "empty", "full"}
\* Scopes that exercise the single-valued streams and the typed resolver.
TypedScopes(embedded) ==
    {PropsPart(q[1], embedded) \cup SinglePart(Ids[1], "001E", q[2])
        \cup SinglePart(Ids[1], "001F", q[3]) \cup SinglePart(Ids[1], "0102", q[4]) :
        q \in (IF embedded THEN {"absent", "U", "L"} ELSE PropKinds) \X Presence
                \X (IF embedded THEN {"absent", "full"} ELSE Presence) \X {"absent", "full"}}
\* Scopes that hold one multi-valued set and the single stream of its kind.
SetScopes(embedded) ==
    UNION {{PropsPart(q[1], embedded) \cup SetPart(Ids[1], q[2], len, q[3])
                \cup SinglePart(Ids[1], SingleOf(q[2]), q[4]) : len \in SetLengths(q[2])} :
            q \in {"U", "L"} \X {"1102", "101E", "101F"}
                    \X (IF embedded THEN {{0}, 0..(MaxRecords - 1)}
                        ELSE SUBSET (0..(MaxRecords - 1)))
                    \X (IF embedded THEN {"absent", "full"} ELSE Presence)}

\* What the root scope of a container with an embedded message may hold:
\* nothing, or streams named like the embedded ones with other contents.
Shadow ==
    {<<PropsName, PropsBytes("U", FALSE)>>,
     <<StreamName(Ids[1], "001E"), <<88>>>>, <<StreamName(Ids[1], "001F"), <<88, 0>>>>,
     <<StreamName(Ids[1], "0102"), <<88, 88, 88>>>>,
     <<StreamName(Ids[1], "1102"), Zeros(8)>>, <<SiblingName(Ids[1], "1102", 0), <<88>>>>,
     <<StreamName(Ids[1], "101E"), Zeros(4)>>, <<SiblingName(Ids[1], "101E", 0), <<88, 0>>>>,
     <<StreamName(Ids[1], "101F"), Zeros(4)>>, <<SiblingName(Ids[1], "101F", 0), <<88, 0, 0, 0>>>>}
Outers == {{}, Shadow}

\* The container holding scope root at the top level and scope inner under
\* the embedded prefix.
Rebuilt(pairs) == [n \in {q[1] : q \in pairs} |-> (CHOOSE q \in pairs : q[1] = n)[2]]
Container(root, inner) == Rebuilt(root \cup {<<EmbedPrefix \o q[1], q[2]>> : q \in inner})

Containers(rootScopes, embeddedScopes) ==
    {Container(r, {}) : r \in rootScopes}
        \cup {Container(q[1], q[2]) : q \in Outers \X (embeddedScopes \ {{}})}

\* Containers with attachments: the top-level scope, the message embedded
\* in '__attach_1' (none, with and without a property stream) and the plain
\* data of '__attach_2'.
LifeRoots ==
    {PropsPart(q[1], FALSE) \cup SinglePart(Ids[1], "0102", q[2])
        \cup (IF q[3] THEN {<<Attach2Data, <<1, 2>>>>} ELSE {}) :
        q \in {"absent", "L"} \X {"absent", "full"} \X BOOLEAN}
LifeInners ==
    {{}, PropsPart("L", TRUE), SinglePart(Ids[1], "001E", "full"),
     PropsPart("L", TRUE) \cup SinglePart(Ids[1], "0102", "full")}
LifeContainers == {Container(q[1], q[2]) : q \in LifeRoots \X LifeInners}

\* Containers with one recipient: the property stream of the recipient
\* (none, with the recipient flags alone, with an inline record '12340003'
\* as well) and its streams of id 1234.
SlotRecipientFlags(value) == PropSlot(12, 21, 0, 3, value)
RecipPropsBytes(kind) ==
    Zeros(HeaderLen("RECIPIENT")) \o SlotRecipientFlags(<<1, 0, 0, 0>>)
    \o (IF kind = "R" THEN SlotInline(<<7, 0, 0, 0>>) ELSE <<>>)
RecipScopes ==
    {(IF q[1] = "absent" THEN {} ELSE {<<PropsName, RecipPropsBytes(q[1])>>})
        \cup SinglePart(Ids[1], "001F", q[2]) \cup SinglePart(Ids[1], "0102", q[3]) :
        q \in {"absent", "plain", "R"} \X Presence \X {"absent", "full"}}
RecipContainers ==
    {Rebuilt(PropsPart(q[1], FALSE) \cup {<<RecipPath(RecipDir, e[1]), e[2]>> : e \in q[2]}) :
        q \in {"absent", "U", "L"} \X (RecipScopes \ {{}})}

\* Containers for existsTypedProperty: a top-level scope with or without an
\* inline record '12340003' and a stream '1234001F', and one recipient with
\* or without the same two and a stream '12340102'.
ExistsRecipScopes ==
    {{<<PropsName, RecipPropsBytes(q[1])>>}
        \cup SinglePart(Ids[1], "001F", q[2]) \cup SinglePart(Ids[1], "0102", q[3]) :
        q \in {"plain", "R"} \X {"absent", "full"} \X {"absent", "full"}}
ExistsContainers ==
    {Rebuilt(PropsPart(q[1], FALSE) \cup SinglePart(Ids[1], "001F", q[2])
                \cup {<<RecipPath(RecipDir, e[1]), e[2]>> : e \in q[3]}) :
        q \in {"absent", "L", "R"} \X {"absent", "full"} \X ExistsRecipScopes}

\* Scopes for the typed resolver on multi-valued streams: a set of
\* MaxSiblings records with any of its indexed siblings, and a stream of the
\* multi-valued type '1101', empty or not.
TypedSetScopes ==
    {PropsPart(q[1], FALSE) \cup SetPart(Ids[1], q[2], RecordWidth(q[2]) * MaxSiblings, q[3]) :
        q \in {"U", "L"} \X {"1102", "101E", "101F"} \X SUBSET (0..(MaxSiblings - 1))}
    \cup {PropsPart("L", FALSE) \cup SinglePart(Ids[1], "1101", c) : c \in {"empty", "full"}}

\* Scopes for the caches of an entity: every kind of property stream and a
\* legacy string.
CacheScopes(embedded) ==
    {PropsPart(q[1], embedded) \cup SinglePart(Ids[1], "001E", q[2]) :
        q \in (IF embedded THEN {"absent", "L", "X"} ELSE PropKinds) \X {"absent", "full"}}

\* ----------------------------------------------------------- state machine
VARIABLES
    ole,        \* the container: path string -> bytes
    oleIsOpen,  \* whether the container handle is open
    self,       \* the MSGFile instance under observation
    pc,         \* "new" before __init__, "ready" after it returned, "failed" after it raised
    last,       \* the last call on the instance: operation, arguments, outcome, paths read
    factoryCalls,   \* the storages the attachment factory was invoked for, in order
    closeLog,       \* what close() calls closed, in order
    parent,     \* the parent of an embedded instance: alive or released, its cached named
    recip,      \* a Recipient of the instance, and whether its message is still alive
    listCalls,  \* the argument tuples of the listDir calls that listed the container, in order
    knownHandlers,  \* _knownHandlers, the module-level registry of handler classes
    handlerLog,     \* the handlers registerHandler accepted, in call order
    custom,     \* a CustomAttachment
    hlast       \* the last call on the registry or on the CustomAttachment

msgVars == <<ole, oleIsOpen, self, pc, last, factoryCalls, closeLog, parent, recip, listCalls>>
vars == <<ole, oleIsOpen, self, pc, last, factoryCalls, closeLog, parent, recip, listCalls,
          knownHandlers, handlerLog, custom, hlast>>

\* A call on the registry or on the CustomAttachment: the registry and the
\* attachment it started from, the handlers it instantiated.
HandlerCall(op, arg, out, known, made, before) ==
    [op |-> op, arg |-> arg, out |-> out, known |-> known, made |-> made, before |-> before]

Call(op, arg, type, prefix, out, reads) ==
    [op |-> op, arg |-> arg, type |-> type, prefix |-> prefix, out |-> out, reads |-> reads]

InitWith(containers) ==
    /\ ole \in containers
    /\ oleIsOpen = FALSE
    /\ self = NewMsg
    /\ pc = "new"
    /\ last = Call("none", <<>>, "none", TRUE, None, {})
    /\ factoryCalls = <<>>
    /\ closeLog = <<>>
    /\ parent = [alive |-> TRUE, prefix |-> <<>>, named |-> [set |-> FALSE, val |-> <<>>]]
    /\ recip = NewRecipient
    /\ listCalls = <<>>
    /\ knownHandlers = knownHandlersAtImport
    /\ handlerLog = <<>>
    /\ custom = NewCustomAttachment
    /\ hlast = HandlerCall("none", None, None, <<>>, <<>>, NewCustomAttachment)

Init == InitWith(Containers(TypedScopes(FALSE), TypedScopes(TRUE)))
InitSets == InitWith(Containers(SetScopes(FALSE), SetScopes(TRUE)))
InitLife == InitWith(LifeContainers)
InitRecip == InitWith(RecipContainers)
InitExists == InitWith(ExistsContainers)
InitTyped == InitWith(Containers(TypedSetScopes, {}))
InitCache == InitWith(Containers(CacheScopes(FALSE), CacheScopes(TRUE)))

ErrorBehaviors == {{}, {"STANDARDS_VIOLATION"}}
OverrideEncodings == {"none"}
TypeArgs == {"none", "001F", "0102"}
\* The accessors are called with the default prefix = True.
PrefixArgs == {TRUE}

\* The storages the injected factory raises for.
FailingSets == SUBSET {EmbedList[1], Attach2}

Constructed(r) ==
    /\ self' = r.st
    /\ oleIsOpen' = r.oleIsOpen
    /\ pc' = IF IsRaise(r.out) THEN "failed" ELSE "ready"
    /\ last' = Call("init", <<>>, "none", TRUE, r.out, r.reads)
    /\ factoryCalls' = factoryCalls \o r.calls
    /\ closeLog' = closeLog \o r.log

\* MSGFile(path, prefix = ..., parentMsg = ..., errorBehavior = ...,
\* delayAttachments = ..., overrideEncoding = ...).  standalone tells whether
\* an instance with a prefix may be opened without a parent, on a container
\* handle of its own.
OpenOpts(failingSets, overrides, standalone) ==
    /\ pc = "new"
    /\ \E prefixList \in {<<>>, EmbedList}, errorBehavior \in ErrorBehaviors,
          delay \in BOOLEAN, override \in overrides,
          failing \in failingSets, alone \in standalone :
        /\ prefixList # <<>> => Join(prefixList) \in OleStorages(ole)
        /\ prefixList = <<>> => ~alone
        /\ Constructed(MsgInit(ole, prefixList # <<>> /\ ~alone, prefixList, errorBehavior,
                               delay, override, failing))
    /\ UNCHANGED <<ole, parent, recip, listCalls, knownHandlers, handlerLog, custom, hlast>>

OpenWith(failingSets) == OpenOpts(failingSets, OverrideEncodings, {FALSE})

Open == OpenWith(SUBSET {EmbedList[1]})

\* One accessor call on the constructed instance, while the container
\* handle is open.
Did(op, arg, type, prefix, r) ==
    /\ oleIsOpen
    /\ self' = r.st
    /\ last' = Call(op, arg, type, prefix, r.out, r.reads)
    /\ UNCHANGED <<ole, oleIsOpen, pc, factoryCalls, closeLog, parent, recip, listCalls, knownHandlers, handlerLog, custom, hlast>>

GetStream ==
    /\ pc = "ready"
    /\ \E name \in {PropsName, StreamName(Ids[1], "0102")}, prefix \in PrefixArgs :
        Did("getStream", name, "none", prefix, getStream(ole, self, name, prefix))

Exists ==
    /\ pc = "ready"
    /\ \E name \in {PropsName, StreamName(Ids[1], "0102")}, prefix \in PrefixArgs :
        Did("exists", name, "none", prefix, exists(ole, self, name, prefix))

SExists ==
    /\ pc = "ready"
    /\ \E i \in 1..Len(Ids), prefix \in PrefixArgs :
        Did("sExists", <<Ids[i]>>, "none", prefix,
            sExists(ole, self, <<SubstgTok, Ids[i]>>, prefix))

GetStringStream ==
    /\ pc = "ready"
    /\ \E i \in 1..Len(Ids), prefix \in PrefixArgs :
        Did("getStringStream", <<Ids[i]>>, "none", prefix,
            getStringStream(ole, self, <<SubstgTok, Ids[i]>>, prefix))

GetTypedData ==
    /\ pc = "ready"
    /\ \E i \in 1..Len(Ids), type \in TypeArgs, prefix \in PrefixArgs :
        Did("getTypedData", <<Ids[i]>>, type, prefix,
            getTypedData(ole, self, Ids[i], type, prefix))

GetMultipleBinary ==
    /\ pc = "ready"
    /\ \E i \in 1..Len(Ids), prefix \in PrefixArgs :
        Did("getMultipleBinary", <<Ids[i]>>, "none", prefix,
            getMultipleBinary(ole, self, <<SubstgTok, Ids[i]>>, prefix))

GetMultipleString ==
    /\ pc = "ready"
    /\ \E i \in 1..Len(Ids), prefix \in PrefixArgs :
        Did("getMultipleString", <<Ids[i]>>, "none", prefix,
            getMultipleString(ole, self, <<SubstgTok, Ids[i]>>, prefix))

GetSingleOrMultipleBinary ==
    /\ pc = "ready"
    /\ \E i \in 1..Len(Ids), prefix \in PrefixArgs :
        Did("getSingleOrMultipleBinary", <<Ids[i]>>, "none", prefix,
            getSingleOrMultipleBinary(ole, self, <<SubstgTok, Ids[i]>>, prefix))

GetSingleOrMultipleString ==
    /\ pc = "ready"
    /\ \E i \in 1..Len(Ids), prefix \in PrefixArgs :
        Did("getSingleOrMultipleString", <<Ids[i]>>, "none", prefix,
            getSingleOrMultipleString(ole, self, <<SubstgTok, Ids[i]>>, prefix))

\* _getTypedData for the multi-valued types, pinned or found by listing.
GetTypedSet ==
    /\ pc = "ready"
    /\ \E i \in 1..Len(Ids), type \in {"none", "101E", "101F", "1101", "1102"} :
        Did("getTypedData", <<Ids[i]>>, type, TRUE, getTypedData(ole, self, Ids[i], type, TRUE))

\* Reading the stringEncoding property.
StringEncoding ==
    /\ pc = "ready"
    /\ Did("stringEncoding", <<>>, "none", TRUE, stringEncoding(ole, self))

\* Reading the props property.
Props ==
    /\ pc = "ready"
    /\ Did("props", <<>>, "none", TRUE, props(ole, self))

\* The same instance over a container that differs only outside the
\* instance's prefix: the top-level scope is replaced.
MutateOutside ==
    /\ pc = "ready"
    /\ self.prefix # <<>>
    /\ \E outer \in Outers :
        /\ ole' = Rebuilt(outer \cup {<<n, ole[n]>> : n \in {m \in DOMAIN ole : StartsWith(m, self.prefix)}})
        /\ ole' # ole
    /\ UNCHANGED <<oleIsOpen, self, pc, last, factoryCalls, closeLog, parent, recip, listCalls, knownHandlers, handlerLog, custom, hlast>>

OpenAttached == OpenWith(FailingSets)

\* Reading the attachments property.
Attachments ==
    /\ pc = "ready"
    /\ oleIsOpen
    /\ Len(factoryCalls) < MaxFactoryCalls
    /\ LET got(r) ==
            /\ self' = r.st
            /\ factoryCalls' = factoryCalls \o r.calls
            /\ last' = Call("attachments", <<>>, "none", TRUE, r.out, r.reads)
       IN got(attachments(ole, self))
    /\ UNCHANGED <<ole, oleIsOpen, pc, closeLog, parent, recip, listCalls, knownHandlers, handlerLog, custom, hlast>>

\* close() on the instance.
Close ==
    /\ pc = "ready"
    /\ LET closed(r) ==
            /\ self' = r.st
            /\ oleIsOpen' = r.oleIsOpen
            /\ closeLog' = closeLog \o r.log
            /\ last' = Call("close", <<>>, "none", TRUE, r.out, {})
       IN closed(close(self, oleIsOpen))
    /\ UNCHANGED <<ole, pc, factoryCalls, parent, recip, listCalls, knownHandlers, handlerLog, custom, hlast>>

\* close() on the embedded message of a materialized attachment.
CloseChild ==
    /\ pc = "ready"
    /\ self.attachments.set
    /\ \E i \in 1..Len(self.attachments.val) :
        /\ self.attachments.val[i].type = "msg"
        /\ LET closed(r) ==
                /\ self' = [self EXCEPT !.attachments.val[i].data = r.st]
                /\ oleIsOpen' = r.oleIsOpen
                /\ closeLog' = closeLog \o r.log
                /\ last' = Call("closeChild", self.attachments.val[i].dir, "none", TRUE, r.out, {})
           IN closed(close(self.attachments.val[i].data, oleIsOpen))
    /\ UNCHANGED <<ole, pc, factoryCalls, parent, recip, listCalls, knownHandlers, handlerLog, custom, hlast>>

\* The parent of an embedded instance is released (garbage collected).
ReleaseParent ==
    /\ pc = "ready"
    /\ self.parentMsg
    /\ parent.alive
    /\ parent' = [parent EXCEPT !.alive = FALSE]
    /\ last' = Call("releaseParent", <<>>, "none", TRUE, None, {})
    /\ UNCHANGED <<ole, oleIsOpen, self, pc, factoryCalls, closeLog, recip, listCalls, knownHandlers, handlerLog, custom, hlast>>

\* Reading the named property.
Named ==
    /\ pc = "ready"
    /\ LET got(r) ==
            /\ self' = r.st
            /\ parent' = r.par
            /\ last' = Call("named", <<>>, "none", TRUE, r.out, {})
       IN got(named(self, parent))
    /\ UNCHANGED <<ole, oleIsOpen, pc, factoryCalls, closeLog, recip, listCalls, knownHandlers, handlerLog, custom, hlast>>

\* The argument tuples listDir is called with.
ListDirArgs == {<<TRUE, FALSE, TRUE>>, <<TRUE, FALSE, FALSE>>, <<FALSE, TRUE, FALSE>>}
ArgName(k) == [i \in 1..Len(k) |-> IF k[i] THEN "True" ELSE "False"]
\* A listing as an outcome: name tells whether the container was listed for
\* it or the memo table answered.
Listing(r) == [kind |-> "list", name |-> IF r.listed THEN "listed" ELSE "memo", data |-> r.list]

\* listDir(streams, storages, includePrefix) on the instance.
ListDir ==
    /\ pc = "ready"
    /\ oleIsOpen
    /\ Len(listCalls) < MaxListCalls
    /\ \E k \in ListDirArgs :
        LET got(r) ==
                /\ self' = r.st
                /\ listCalls' = IF r.listed THEN Append(listCalls, ArgName(k)) ELSE listCalls
                /\ last' = Call("listDir", ArgName(k), "none", TRUE, Listing(r), {})
        IN got(listDir(ole, self, k[1], k[2], k[3]))
    /\ UNCHANGED <<ole, oleIsOpen, pc, factoryCalls, closeLog, parent, recip, knownHandlers, handlerLog, custom, hlast>>

\* Construction of any instance, one with a prefix and a container handle of
\* its own included, with a factory that may fail.
OpenStandalone == OpenOpts(FailingSets, OverrideEncodings, BOOLEAN)

\* Construction with and without overrideEncoding.
OpenOverride == OpenOpts({{}}, {"none", "cp1252"}, {FALSE})

\* Recipient(dir, msg) for the recipient storage of a root instance.
NewRecip ==
    /\ pc = "ready"
    /\ oleIsOpen
    /\ self.prefix = <<>>
    /\ ~recip.made
    /\ OleExists(ole, RecipDir)
    /\ LET made(r) ==
            /\ self' = r.st
            /\ recip' = r.recip
            /\ last' = Call("recipient.init", RecipDir, "none", TRUE, r.out, r.reads)
       IN made(RecipientInit(ole, self, RecipDir))
    /\ UNCHANGED <<ole, oleIsOpen, pc, factoryCalls, closeLog, parent, listCalls, knownHandlers, handlerLog, custom, hlast>>

\* One accessor call on the recipient.
RecipDid(op, arg, type, r) ==
    /\ recip.made
    /\ oleIsOpen
    /\ self' = r.st
    /\ last' = Call(op, arg, type, TRUE, r.out, r.reads)
    /\ UNCHANGED <<ole, oleIsOpen, pc, factoryCalls, closeLog, parent, recip, listCalls, knownHandlers, handlerLog, custom, hlast>>

RecipGetStream ==
    \E i \in 1..Len(RecipNames) :
        RecipDid("recipient.getStream", RecipNames[i], "none",
                 RecipientGetStream(ole, self, recip, RecipNames[i]))

RecipGetTypedData ==
    \E i \in 1..Len(Ids), type \in TypeArgs \cup {"0003"}, lenient \in BOOLEAN :
        RecipDid("recipient.getTypedData", <<Ids[i]>>, type,
                 RecipientGetTypedData(ole, self, recip, Ids[i], type, lenient))

\* One existsTypedProperty call, on the instance or on the recipient.
ExistsDid(op, id, type, r) ==
    /\ oleIsOpen
    /\ Len(listCalls) < MaxListCalls
    /\ self' = r.st
    /\ listCalls' = IF r.listed THEN Append(listCalls, ArgName(<<TRUE, FALSE, TRUE>>))
                    ELSE listCalls
    /\ last' = Call(op, <<id>>, type, TRUE, r.out, r.reads)
    /\ UNCHANGED <<ole, oleIsOpen, pc, factoryCalls, closeLog, parent, recip,
                   knownHandlers, handlerLog, custom, hlast>>

ExistsTypedProperty ==
    /\ pc = "ready"
    /\ \E i \in 1..Len(Ids), type \in TypeArgs \cup {"0003"} :
        ExistsDid("existsTypedProperty", Ids[i], type,
                  existsTypedProperty(ole, self, Ids[i], <<>>, type, TRUE,
                                      [given |-> FALSE, store |-> <<>>]))

RecipExistsTypedProperty ==
    /\ recip.made
    /\ \E i \in 1..Len(Ids), type \in TypeArgs \cup {"0003"} :
        ExistsDid("recipient.existsTypedProperty", Ids[i], type,
                  RecipientExistsTypedProperty(ole, self, recip, Ids[i], type))

\* The message of the recipient is released (garbage collected).
ReleaseMsg ==
    /\ recip.made
    /\ recip.msgAlive
    /\ recip' = [recip EXCEPT !.msgAlive = FALSE]
    /\ last' = Call("releaseMsg", <<>>, "none", TRUE, None, {})
    /\ UNCHANGED <<ole, oleIsOpen, self, pc, factoryCalls, closeLog, parent, listCalls, knownHandlers, handlerLog, custom, hlast>>

\* Construction and the single-valued accessors.
Next ==
    \/ Open
    \/ GetStream
    \/ Exists
    \/ GetStringStream
    \/ GetTypedData
    \/ StringEncoding
    \/ Props
    \/ MutateOutside

\* Construction and the multi-valued accessors.
NextSets ==
    \/ Open
    \/ SExists
    \/ GetTypedData
    \/ GetMultipleBinary
    \/ GetMultipleString
    \/ GetSingleOrMultipleBinary
    \/ GetSingleOrMultipleString

\* Construction, attachment discovery, closing and release.
NextLife ==
    \/ OpenAttached
    \/ Attachments
    \/ Close
    \/ CloseChild
    \/ GetStream
    \/ Exists
    \/ GetTypedData
    \/ ReleaseParent
    \/ Named

Spec == Init /\ [][Next]_vars
SpecLife == InitLife /\ [][NextLife]_vars

\* A message and one of its recipients.
NextRecip ==
    \/ Open
    \/ GetTypedData
    \/ NewRecip
    \/ RecipGetStream
    \/ RecipGetTypedData
    \/ ReleaseMsg
SpecRecip == InitRecip /\ [][NextRecip]_vars

\* existsTypedProperty on a message and on its recipient.
NextExists ==
    \/ Open
    \/ NewRecip
    \/ ExistsTypedProperty
    \/ RecipExistsTypedProperty
    \/ RecipGetStream
    \/ ReleaseMsg
SpecExists == InitExists /\ [][NextExists]_vars

\* The typed resolver on multi-valued streams.
NextTyped ==
    \/ Open
    \/ GetTypedSet
    \/ GetStream
    \/ StringEncoding
SpecTyped == InitTyped /\ [][NextTyped]_vars

\* The properties an attachment is given, and the arguments of getFilename.
ContentIds == {None, Str(<<"c", "i", "d">>)}
AttachmentNames == {None, Str(<<"a", ".", "b", "i", "n">>)}
HandlerNames == {None, Str(<<>>), Str(<<"h", ".", "b", "m", "p">>)}
CustomFilenames == {None, Str(<<>>), Str(<<"o", "u", "t">>), Str(<<"o", "/", "t">>)}
RandomNames == {<<"UnknownFilename ", "A1B2C", ".bin">>, <<"UnknownFilename ", "Z9Y8X", ".bin">>}

RegisterHandler ==
    /\ Len(handlerLog) < MaxHandlers
    /\ \E handler \in HandlerValues :
        LET r == registerHandler(knownHandlers, handler)
        IN  /\ knownHandlers' = r.known
            /\ handlerLog' = IF IsRaise(r.out) THEN handlerLog ELSE Append(handlerLog, handler)
            /\ hlast' = HandlerCall("registerHandler", handler, r.out, knownHandlers,
                                    <<>>, NewCustomAttachment)
    /\ UNCHANGED <<msgVars, custom>>

GetHandler ==
    /\ \E accepted \in SUBSET HandlerClasses :
        LET attachment == [NewCustomAttachment EXCEPT !.accepted = accepted]
            r == getHandler(knownHandlers, attachment)
        IN  hlast' = HandlerCall("getHandler", attachment, r.out, knownHandlers,
                                r.made, NewCustomAttachment)
    /\ UNCHANGED <<msgVars, knownHandlers, handlerLog, custom>>

CustomAttachmentNew ==
    /\ ~custom.made
    /\ \E accepted \in SUBSET HandlerClasses, cid \in ContentIds,
          name \in AttachmentNames, handlerName \in HandlerNames :
        LET r == CustomAttachmentInit(knownHandlers, accepted, cid, name, handlerName)
        IN  /\ custom' = r.att
            /\ hlast' = HandlerCall("init", None, r.out, knownHandlers, r.made,
                                    NewCustomAttachment)
    /\ UNCHANGED <<msgVars, knownHandlers, handlerLog>>

GetFilename ==
    /\ custom.made
    /\ \E customFilename \in CustomFilenames, contentId \in BOOLEAN, fresh \in RandomNames :
        LET r == getFilename(custom, customFilename, contentId, fresh)
        IN  /\ custom' = r.att
            /\ hlast' = HandlerCall("getFilename",
                                    [customFilename |-> customFilename, contentId |-> contentId],
                                    r.out, knownHandlers, <<>>, custom)
    /\ UNCHANGED <<msgVars, knownHandlers, handlerLog>>

RegenerateRandomName ==
    /\ custom.made
    /\ \E fresh \in RandomNames :
        /\ custom' = regenerateRandomName(custom, fresh)
        /\ hlast' = HandlerCall("regenerateRandomName", None, None, knownHandlers,
                                <<>>, custom)
    /\ UNCHANGED <<msgVars, knownHandlers, handlerLog>>

\* The handler registry and a custom attachment; neither reads the container.
InitCustom == InitWith({Container({}, {})})
NextCustom ==
    \/ RegisterHandler
    \/ GetHandler
    \/ CustomAttachmentNew
    \/ GetFilename
    \/ RegenerateRandomName
SpecCustom == InitCustom /\ [][NextCustom]_vars

\* Construction, its failures, and what is left to close.
NextOpen ==
    \/ OpenStandalone
    \/ Close
    \/ Exists
SpecOpen == InitLife /\ [][NextOpen]_vars

\* The caches of an entity: directory listings and the string encoding.
NextCache ==
    \/ OpenOverride
    \/ ListDir
    \/ StringEncoding
    \/ GetStringStream
    \/ Props
SpecCache == InitCache /\ [][NextCache]_vars
SpecSets == InitSets /\ [][NextSets]_vars

\* ------------------------------------------------------------- properties
\* What the formulas below say about the observed instance.
Constructed_ == pc # "new"
IsRoot == self.prefix = <<>>
Throws == "STANDARDS_VIOLATION" \notin self.errorBehavior
Tolerant == "STANDARDS_VIOLATION" \in self.errorBehavior
\* The container path of a name of the instance's own scope.
InScope(name) == self.prefix \o name
HasPropsStream == InScope(PropsName) \in DOMAIN ole
RaisedStandardViolation(out) == out = Raise("StandardViolationError")

\* C1: a container without a '__properties_version1.0' stream in the root
\* scope cannot be opened as a root entity under errorBehavior THROW: the
\* constructor raises StandardViolationError and never returns an entity.
C1_OpenThrowsWithoutProps ==
    (Constructed_ /\ IsRoot /\ Throws /\ ~HasPropsStream)
        => /\ pc = "failed"
           /\ last.op = "init" => RaisedStandardViolation(last.out)

\* The streams of the instance's scope that _getTypedData(id, type) would
\* decode, in listing order.
Candidates(id, type) ==
    SelectSeq(AllEntries,
              LAMBDA e : /\ e \in DOMAIN ole
                         /\ StartsWith(e, InScope(<<SubstgTok, id>>))
                         /\ Len(e) = Len(self.prefix) + 3
                         /\ type # "none" => Last(e) = type)
NoValueStream(id, type) ==
    Candidates(id, type) = <<>> \/ ole[Candidates(id, type)[1]] = <<>>
CalledTypedData == pc = "ready" /\ last.op = "getTypedData"

ScopeKind ==
    IF ~HasPropsStream THEN "absent"
    ELSE CHOOSE k \in PropKinds \ {"absent"} :
            ole[InScope(PropsName)] = PropsBytes(k, ~IsRoot)
\* Whether the Unicode bit of the support mask of the scope is set.
UnicodeScope == ScopeKind = "U"
StringSetType == IF UnicodeScope THEN "101F" ELSE "101E"
SetStream(type) == InScope(StreamName(last.arg[1], type))
SetSibling(type, y) == InScope(SiblingName(last.arg[1], type, y))
\* The number of leading indexed siblings of a set that are present, among
\* the first n.
LeadingSiblings(type, n) ==
    IF \E y \in 0..(n - 1) : SetSibling(type, y) \notin DOMAIN ole
    THEN CHOOSE y \in 0..(n - 1) :
            /\ SetSibling(type, y) \notin DOMAIN ole
            /\ \A z \in 0..(y - 1) : SetSibling(type, z) \in DOMAIN ole
    ELSE n
WholeRecords(type) ==
    /\ SetStream(type) \in DOMAIN ole
    /\ Len(ole[SetStream(type)]) >= RecordWidth(type)
    /\ Len(ole[SetStream(type)]) % RecordWidth(type) = 0
BrokenRecords(type) ==
    /\ SetStream(type) \in DOMAIN ole
    /\ Len(ole[SetStream(type)]) % RecordWidth(type) # 0
ExpectedBinaries ==
    [i \in 1..LeadingSiblings("1102", Len(ole[SetStream("1102")]) \div 8) |->
        ole[SetSibling("1102", i - 1)]]
ExpectedStrings ==
    [i \in 1..LeadingSiblings(StringSetType, Len(ole[SetStream(StringSetType)]) \div 4) |->
        DropLast(Decode(IF UnicodeScope THEN "utf-16-le" ELSE "iso-8859-15",
                        ole[SetSibling(StringSetType, i - 1)]).data[1])]

\* C3: when the container stream of a multi-valued set holds n >= 1 whole
\* records, getMultipleBinary returns the contents of the indexed siblings
\* up to the first missing one, and getMultipleString returns the decoded
\* siblings up to the first missing one; neither raises.
C3_LongestValidPrefix ==
    /\ (pc = "ready" /\ last.op = "getMultipleBinary" /\ WholeRecords("1102"))
            => last.out = BytesList(ExpectedBinaries)
    /\ (pc = "ready" /\ last.op = "getMultipleString" /\ WholeRecords(StringSetType))
            => last.out = StrList(ExpectedStrings)

\* C4: a non-empty container stream whose length is not a multiple of the
\* record width makes getMultipleString (width 4) and getMultipleBinary
\* (width 8) raise StandardViolationError.
C4_BrokenLengthRaises ==
    /\ (pc = "ready" /\ last.op = "getMultipleBinary" /\ BrokenRecords("1102"))
            => RaisedStandardViolation(last.out)
    /\ (pc = "ready" /\ last.op = "getMultipleString" /\ BrokenRecords(StringSetType))
            => RaisedStandardViolation(last.out)

\* C5: with STANDARDS_VIOLATION tolerated no call raises
\* StandardViolationError; getMultipleString and getMultipleBinary on a
\* container stream of broken length return None or an empty list.
C5_TolerantNeverRaises ==
    (Constructed_ /\ Tolerant) =>
        /\ ~RaisedStandardViolation(last.out)
        /\ (last.op = "getMultipleBinary" /\ BrokenRecords("1102"))
                => last.out \in {None, BytesList(<<>>)}
        /\ (last.op = "getMultipleString" /\ BrokenRecords(StringSetType))
                => last.out \in {None, StrList(<<>>)}

SingleStringType == IF UnicodeScope THEN "001F" ELSE "001E"
ScopeEncoding == IF UnicodeScope THEN "utf-16-le" ELSE "iso-8859-15"
\* The paths of multi-valued container streams and of their siblings.
TouchesSet(reads) ==
    \E r \in reads : \E i \in 1..Len(r) : r[i] \in {"1102", "101E", "101F"}

\* C6: when the single-valued stream and the multi-valued container stream
\* of one id both exist, getSingleOrMultipleBinary returns the bytes of the
\* '0102' stream and getSingleOrMultipleString the decoded single string
\* stream, an empty single stream included, and the multi-valued set is
\* not read; the set is read only when the single stream is absent.
C6_SingleWins ==
    /\ (pc = "ready" /\ last.op = "getSingleOrMultipleBinary") =>
        /\ SetStream("0102") \in DOMAIN ole
                => last.out = Bytes(ole[SetStream("0102")]) /\ ~TouchesSet(last.reads)
        /\ TouchesSet(last.reads) => SetStream("0102") \notin DOMAIN ole
    /\ (pc = "ready" /\ last.op = "getSingleOrMultipleString") =>
        /\ SetStream(SingleStringType) \in DOMAIN ole
                => /\ last.out = Decode(ScopeEncoding, ole[SetStream(SingleStringType)])
                   /\ ~TouchesSet(last.reads)
        /\ TouchesSet(last.reads) => SetStream(SingleStringType) \notin DOMAIN ole

\* Witness of C6: both streams exist, the single one is empty, and the
\* empty value was returned.
C6_Witness ==
    /\ pc = "ready" /\ last.op = "getSingleOrMultipleBinary"
    /\ SetStream("0102") \in DOMAIN ole /\ SetStream("1102") \in DOMAIN ole
    /\ ole[SetStream("0102")] = <<>> /\ ole[SetStream("1102")] # <<>>
    /\ last.out = Bytes(<<>>)

\* C8: on an instance with a non-empty prefix the multi-valued accessors and
\* sExists apply the prefix once: every path they read is the prefix
\* followed by a name of the scope, sExists answers whether the scope
\* holds the '001F' or the '001E' stream, and getMultipleBinary returns
\* the set stored in the scope.
C8_PrefixAppliedOnce ==
    (pc = "ready" /\ ~IsRoot
        /\ last.op \in {"getMultipleBinary", "getMultipleString", "sExists",
                        "getSingleOrMultipleBinary", "getSingleOrMultipleString"})
    => /\ \A r \in last.reads :
            /\ StartsWith(r, self.prefix)
            /\ <<r[Len(self.prefix) + 1]>> \in {PropsName, <<SubstgTok>>}
       /\ last.op = "sExists" =>
            last.out = Bool(SetStream("001F") \in DOMAIN ole \/ SetStream("001E") \in DOMAIN ole)
       /\ (last.op = "getMultipleBinary" /\ WholeRecords("1102"))
            => last.out = BytesList(ExpectedBinaries)

\* The answers of the prefix-scoped accessors of instance st over container o.
Answers(o, st) ==
    [stream |-> [i \in 1..Len(RelNames) |-> getStream(o, st, RelNames[i], TRUE).out],
     exist |-> [i \in 1..Len(RelNames) |-> exists(o, st, RelNames[i], TRUE).out],
     string |-> [i \in 1..Len(Ids) |-> getStringStream(o, st, <<SubstgTok, Ids[i]>>, TRUE).out],
     typed |-> [i \in 1..Len(Ids) |->
                    [t \in TypeArgs |-> getTypedData(o, st, Ids[i], t, TRUE).out]]]
PrefixScopedOps == {"getStream", "exists", "getStringStream", "getTypedData"}

\* C7: on an instance with a non-empty prefix P, getStream, exists,
\* getStringStream and getProperty hand only paths that start with P to the
\* container, and a change of the container outside P changes none of
\* their answers.
C7_PrefixIsolation ==
    [][/\ (pc' = "ready" /\ self'.prefix # <<>> /\ last'.op \in PrefixScopedOps)
            => \A r \in last'.reads : StartsWith(r, self'.prefix)
       /\ (pc = "ready" /\ ~IsRoot /\ ole' # ole)
            => Answers(ole', self) = Answers(ole, self)]_vars

\* Witness of C7: an embedded instance decoded its own string stream while
\* the top level holds a stream of the same name with other bytes.
C7_Witness ==
    /\ pc = "ready" /\ ~IsRoot /\ last.op = "getTypedData" /\ last.out.kind = "str"
    /\ StreamName(last.arg[1], "001E") \in DOMAIN ole
    /\ InScope(StreamName(last.arg[1], "001E")) \in DOMAIN ole
    /\ ole[StreamName(last.arg[1], "001E")] # ole[InScope(StreamName(last.arg[1], "001E"))]
    /\ last.out = Decode("iso-8859-15", ole[InScope(StreamName(last.arg[1], "001E"))])

\* The codec the scope's property stream selects for legacy strings.
LegacyEncoding == IF ScopeKind = "C" THEN "cp1252" ELSE "iso-8859-15"

\* C9: with the Unicode bit (0x40000 of '340D0003') set, getStringStream
\* reads only the '001F' stream and returns its UTF-16LE decoding, None when
\* it is absent; with the bit clear it reads only the '001E' stream and
\* decodes it with the resolved encoding (a codepage the table does not know
\* makes the resolution fail).  The property stream is the only other read.
C9_UnicodeBitSelectsStream ==
    (pc = "ready" /\ last.op = "getStringStream" /\ ~(ScopeKind = "absent" /\ Throws)) =>
        IF UnicodeScope
        THEN /\ last.reads \subseteq {InScope(PropsName), SetStream("001F")}
             /\ last.out = IF SetStream("001F") \in DOMAIN ole
                           THEN Decode("utf-16-le", ole[SetStream("001F")]) ELSE None
        ELSE /\ last.reads \subseteq {InScope(PropsName), SetStream("001E")}
             /\ last.out = IF SetStream("001E") \notin DOMAIN ole THEN None
                           ELSE IF ScopeKind = "X" THEN Raise("UnsupportedEncodingError")
                           ELSE Decode(LegacyEncoding, ole[SetStream("001E")])

\* Witness of C9: both string streams exist, the bit is set, and the
\* decoded '001F' stream was returned.
C9_Witness ==
    /\ pc = "ready" /\ last.op = "getStringStream" /\ UnicodeScope
    /\ SetStream("001E") \in DOMAIN ole /\ SetStream("001F") \in DOMAIN ole
    /\ ole[SetStream("001F")] # <<>>
    /\ last.out = Str(<<72, 8364>>)

\* The scope has a property store whose Unicode bit is clear and that holds
\* no '3FFD0003' record, and no encoding was forced at construction.
DefaultEncodingCase ==
    /\ pc = "ready"
    /\ ScopeKind = "L" \/ (ScopeKind = "absent" /\ Tolerant)
    /\ self.overrideEncoding = "none"

\* C10: with the Unicode bit clear and no '3FFD0003' record, resolving the
\* string encoding never raises and yields 'iso-8859-15', and every '001E'
\* string is decoded with it.
C10_DefaultLegacyEncoding ==
    DefaultEncodingCase =>
        /\ self.stringEncoding \in {"unset", "iso-8859-15"}
        /\ last.op = "stringEncoding" => last.out = Enc("iso-8859-15")
        /\ (last.op = "getStringStream" /\ SetStream("001E") \in DOMAIN ole)
                => last.out = Decode("iso-8859-15", ole[SetStream("001E")])
        /\ (last.op = "getTypedData" /\ ~NoValueStream(last.arg[1], last.type)
                /\ Last(Candidates(last.arg[1], last.type)[1]) = "001E")
                => last.out = Decode("iso-8859-15", ole[SetStream("001E")])

\* Witness of C10: a legacy string holding byte 0xA4 was decoded to the euro
\* sign after the encoding defaulted.
C10_Witness ==
    /\ DefaultEncodingCase /\ last.op = "getStringStream"
    /\ self.stringEncoding = "iso-8859-15"
    /\ last.out = Str(<<72, 8364>>)

\* C11: with the Unicode bit clear, getMultipleString(id) reads the
\* container stream id+'101E' of the entity's scope and, when it holds whole
\* records, the siblings id+'101E-XXXXXXXX'; every set path it reads carries
\* the requested id.
C11_LegacySetNameCarriesId ==
    (pc = "ready" /\ last.op = "getMultipleString" /\ ~UnicodeScope) =>
        /\ SetStream("101E") \in last.reads
        /\ \A r \in last.reads : r = InScope(PropsName) \/ StartsWith(r, SetStream("101E"))
        /\ WholeRecords("101E") => last.out = StrList(ExpectedStrings)

\* What resolving the string encoding of the scope yields.
ResolvedEncoding ==
    IF ScopeKind = "absent" /\ Throws THEN Raise("StandardViolationError")
    ELSE IF ScopeKind = "U" THEN Enc("utf-16-le")
    ELSE IF ScopeKind = "C" THEN Enc("cp1252")
    ELSE IF ScopeKind = "X" THEN Raise("UnsupportedEncodingError")
    ELSE Enc("iso-8859-15")
\* Whether the property store of the scope holds a record for (id, type).
InlineRecord(id, type) == ScopeKind = "R" /\ id = "1234" /\ type \in {"none", "0003"}
FirstCandidate == Candidates(last.arg[1], last.type)[1]

EmptySet(type) == SetStream(type) \in DOMAIN ole /\ ole[SetStream(type)] = <<>>
\* No path of an indexed sibling was handed to the container.
NoSiblingProbe == \A r \in last.reads : \A i \in 1..Len(r) : r[i] # "-"

\* C13: when the container stream of a multi-valued set exists and is
\* empty, getMultipleBinary, getMultipleString and the typed resolver probe
\* no indexed sibling, and getMultipleBinary and getMultipleString return an
\* empty list.
C13_EmptySetProbesNothing ==
    pc = "ready" =>
        /\ (last.op = "getMultipleBinary" /\ EmptySet("1102"))
                => NoSiblingProbe /\ last.out = BytesList(<<>>)
        /\ (last.op = "getMultipleString" /\ EmptySet(StringSetType))
                => NoSiblingProbe /\ last.out = StrList(<<>>)
        /\ (last.op = "getTypedData" /\ Candidates(last.arg[1], last.type) # <<>>
                /\ ole[Candidates(last.arg[1], last.type)[1]] = <<>>)
                => NoSiblingProbe /\ last.out = None

\* The attachment storages of the instance's scope, in listing order.
AttachDirs ==
    SelectSeq(<<EmbedList[1], Attach2>>, LAMBDA d : OleExists(ole, InScope(d)))

\* C14: over any sequence of accesses to attachments, failed ones included,
\* the factory is invoked at most once for each attachment storage, and a
\* discovered list holds one child per storage of the scope, in listing
\* order.
C14_FactoryOncePerStorage ==
    /\ \A i, j \in 1..Len(factoryCalls) : factoryCalls[i] = factoryCalls[j] => i = j
    /\ (pc = "ready" /\ self.attachments.set)
            => [i \in 1..Len(self.attachments.val) |-> self.attachments.val[i].dir] = AttachDirs

\* C15: with delayAttachments open invokes no factory, leaves
\* attachmentsReady false and, for a root entity, returns whatever the
\* factory would do; attachmentsReady turns true only by an access to
\* attachments that succeeds, every such access makes it true, and it stays
\* true.  Without delayAttachments every entity open returns has
\* attachmentsReady true.
C15_DelayedDiscovery ==
    [][/\ (last'.op = "init" /\ self'.attachmentsDelayed)
            => /\ factoryCalls' = <<>>
               /\ ~self'.attachmentsReady
               /\ self'.prefix = <<>> => pc' = "ready"
       /\ (pc' = "ready" /\ ~self'.attachmentsDelayed) => self'.attachmentsReady
       /\ (pc = "ready" /\ self.attachmentsReady) => self'.attachmentsReady
       /\ (pc = "ready" /\ ~self.attachmentsReady /\ self'.attachmentsReady)
            => last'.op = "attachments" /\ last'.out = None
       /\ (last'.op = "attachments" /\ last'.out = None) => self'.attachmentsReady]_vars

\* Witness of C15: a delayed entity was opened although the factory fails,
\* and the failed access left attachmentsReady false.
C15_Witness ==
    /\ pc = "ready" /\ self.attachmentsDelayed /\ ~self.attachmentsReady
    /\ last.op = "attachments" /\ last.out = Raise("AttachmentError")
    /\ factoryCalls # <<>>

\* The embedded messages of the materialized attachments of an entity.
MsgChildren(st) == {i \in 1..Len(st.attachments.val) : st.attachments.val[i].type = "msg"}
ContainerCloses(log) == {i \in 1..Len(log) : log[i].kind = "container"}

C17_SingleOwnerClose ==
    [][/\ Cardinality(ContainerCloses(closeLog')) <= 1
       /\ ContainerCloses(closeLog') # ContainerCloses(closeLog)
            => self'.oleOwner /\ last'.op \in {"close", "init"} /\ ~oleIsOpen'
       /\ (pc = "ready" /\ ~self.oleOwner) => oleIsOpen' = oleIsOpen
       /\ last'.op = "closeChild" => oleIsOpen' = oleIsOpen
       /\ (pc = "ready" /\ self.open = "false" /\ last'.op = "close")
            => self' = self /\ closeLog' = closeLog /\ oleIsOpen' = oleIsOpen
       /\ (pc = "ready" /\ last'.op = "closeChild"
            /\ \A k \in MsgChildren(self) : self.attachments.val[k].data.open = "false")
            => self' = self /\ closeLog' = closeLog]_vars

\* Witness of C17: after the owner closed everything, close() was called
\* again on the child; the container was closed once.
C17_Witness ==
    /\ pc = "ready" /\ self.oleOwner /\ self.open = "false" /\ ~oleIsOpen
    /\ last.op = "closeChild"
    /\ Cardinality(ContainerCloses(closeLog)) = 1
    /\ Len(closeLog) = 3

\* C18: after close() on a non-owning entity, while the container is still
\* open, getStream, exists and getProperty through that entity fail.
C18_ClosedEntityFails ==
    (pc = "ready" /\ ~self.oleOwner /\ self.open = "false" /\ oleIsOpen
        /\ last.op \in {"getStream", "exists", "getTypedData"})
    => IsRaise(last.out)

\* C19 as stated: named of an embedded entity is its parent's, and after
\* the parent was released an access to named raises ReferenceError.
C19_NamedFailsAfterRelease ==
    (pc = "ready" /\ ~IsRoot /\ last.op = "named") =>
        IF parent.alive THEN last.out = NamedOf(parent.named.val) /\ parent.named.set
        ELSE last.out = Raise("ReferenceError")

\* C19 amended: named of an embedded entity is its parent's (the root's);
\* after the parent was released an access raises ReferenceError when named
\* was never read before, and returns the object read before otherwise.
C19_NamedCachedOrFails ==
    (pc = "ready" /\ ~IsRoot /\ last.op = "named") =>
        IF self.named.set
        THEN /\ last.out = NamedOf(<<>>)
             /\ self.named.val = <<>>
             /\ parent.named = [set |-> TRUE, val |-> <<>>]
        ELSE ~parent.alive /\ last.out = Raise("ReferenceError")

\* Witness of C19: named was first read after the release of the parent.
C19_Witness ==
    /\ pc = "ready" /\ ~IsRoot /\ ~parent.alive
    /\ last.op = "named" /\ last.out = Raise("ReferenceError")
\* What stream-then-record resolution yields for the recipient's storage
\* and the recipient's own property store.
RecipientResolution(id, type) ==
    LET record(p) == IF p.found THEN p.out ELSE None
        stream(s) ==
            IF s.found \/ IsRaise(s.out) THEN s.out
            ELSE record(RecipientGetTypedProperty(self, recip, id, type))
    IN stream(getTypedStream(ole, self, RecipPath(recip.dir, <<SubstgTok, id>>), TRUE, type))

\* C20: Recipient._getTypedData(id, type) returns what stream-then-record
\* resolution yields for [recipientDir, '__substg1.0_' + id (+ type)] and
\* the recipient's own property store, and None, without raising, when
\* neither a stream nor a record exists.
C20_RecipientResolvesLikeMessage ==
    (recip.made /\ recip.msgAlive /\ last.op = "recipient.getTypedData") =>
        /\ last.out = RecipientResolution(last.arg[1], last.type)
        /\ (/\ \A t \in {"001F", "0102"} :
                    ~OleExists(ole, RecipPath(recip.dir, StreamName(last.arg[1], t)))
            /\ \A i \in 1..Len(recip.props) : recip.props[i].tag[1] # last.arg[1])
                => last.out = None

\* C21: on every entity, root or embedded, the container is listed at most
\* once for each argument tuple of listDir: a later call with the same
\* tuple is answered from the memo table, with the entries of the first.
C21_ListDirMemoized ==
    /\ \A i, j \in 1..Len(listCalls) : listCalls[i] = listCalls[j] => i = j
    /\ (pc = "ready" /\ last.op = "listDir")
            => \E k \in ListDirArgs :
                    /\ ArgName(k) = last.arg
                    /\ k \in DOMAIN self.listDirRes
                    /\ self.listDirRes[k] = last.out.data

\* C22: the string encoding is decided at most once and never changes: an
\* access that follows an access finds the decision made, reads nothing,
\* leaves the entity as it is and has the same outcome; with
\* overrideEncoding every access returns the override and reads nothing.
C22_EncodingDecidedOnce ==
    [][/\ (pc = "ready" /\ last.op = "stringEncoding" /\ last'.op = "stringEncoding")
            => /\ self.stringEncoding # "unset"
               /\ last'.out = last.out
               /\ last'.reads = {}
               /\ self' = self
       /\ (pc = "ready" /\ self.stringEncoding # "unset")
            => self'.stringEncoding = self.stringEncoding
       /\ (pc = "ready" /\ last'.op = "stringEncoding" /\ self.overrideEncoding # "none")
            => /\ last'.out = Enc(self.overrideEncoding)
               /\ last'.reads = {}
               /\ self' = self]_vars

\* The set of the pinned type the typed resolver was asked for exists with
\* its first indexed sibling.
TypedSetCase ==
    /\ pc = "ready" /\ last.op = "getTypedData"
    /\ last.type \in {"101E", "101F", "1102"}
    /\ SetStream(last.type) \in DOMAIN ole
    /\ ole[SetStream(last.type)] # <<>>
    /\ SetSibling(last.type, 0) \in DOMAIN ole
\* The contents of the indexed siblings before the first missing one.
LeadingContents(type) ==
    [i \in 1..LeadingSiblings(type, Len(ole[SetStream(type)]) \div RecordWidth(type)) |->
        ole[SetSibling(type, i - 1)]]

\* C23: for a multi-valued string or binary set whose '-00000000' sibling
\* exists the typed resolver decodes the longest valid prefix: the siblings
\* before the first missing index, and none behind a missing index.
C23_TypedSetLongestPrefix ==
    (TypedSetCase /\ ~IsRaise(last.out)) =>
        last.out = parseType(last.type, ole[SetStream(last.type)], self.stringEncoding,
                             LeadingContents(last.type))

C26_FailedOpenClosesContainer ==
    (pc = "failed" /\ self.oleOwner) => ~oleIsOpen

\* The first handler of the registry that accepts the attachment, 0 if none.
FirstAccepting(known, attachment) ==
    IF \E i \in DOMAIN known : isCorrectHandler(known[i], attachment)
    THEN CHOOSE i \in DOMAIN known :
            /\ isCorrectHandler(known[i], attachment)
            /\ \A j \in 1..(i - 1) : ~isCorrectHandler(known[j], attachment)
    ELSE 0

C28_RegisterRejectsWithTypeError ==
    (hlast.op = "registerHandler" /\ ~(hlast.arg.isType /\ issubclass(hlast.arg))) =>
        /\ hlast.out = Raise("TypeError")
        /\ knownHandlers = hlast.known

\* The name getFilename is to return by priority, None for the random name.
NameByPriority(att, customFilename, contentId) ==
    IF Truthy(customFilename) THEN customFilename
    ELSE IF contentId /\ Truthy(att.cid) THEN att.cid
    ELSE IF Truthy(att.handlerName) THEN att.handlerName
    ELSE IF Truthy(att.name) THEN att.name
    ELSE None

\* C29: getFilename returns a valid customFilename (ValueError for an
\* invalid one), else the Content-ID when contentId is true and there is one,
\* else the name of the handler, else the name of the attachment, else the
\* random filename, which is the one of the call before unless
\* regenerateRandomName ran.
C29_FilenamePriority ==
    hlast.op = "getFilename" =>
        LET name == NameByPriority(hlast.before, hlast.arg.customFilename, hlast.arg.contentId)
        IN  IF Truthy(hlast.arg.customFilename)
                /\ \E i \in DOMAIN name.data[1] : name.data[1][i] \in InvalidFilenameCharacters
            THEN hlast.out = Raise("ValueError")
            ELSE IF name # None THEN hlast.out = name
            ELSE /\ hlast.out = Str(custom.randomName.val)
                 /\ hlast.before.randomName.set => custom.randomName = hlast.before.randomName

\* The number of properties with the id (and type) of the call in a
\* location: the streams directly inside the storage dir (<<>> for the top
\* level), and the records of store that have no stream there.
CountedIn(o, dir, store, usableId) ==
    LET inside == IF dir = <<>> THEN <<>> ELSE dir \o <<Sep>>
        streams == {n \in DOMAIN o :
                        /\ StartsWith(n, inside \o <<SubstgTok>> \o usableId)
                        /\ \A i \in (Len(inside) + 1)..Len(n) : n[i] # Sep}
        records == {x \in 1..Len(store) :
                        /\ StartsWith(store[x].tag, usableId)
                        /\ \A n \in streams : ~EndsWith(n, store[x].tag)}
    IN  Cardinality(streams) + Cardinality(records)
UsableId(call) == IF call.type # "none" THEN call.arg \o <<call.type>> ELSE call.arg

\* C30: existsTypedProperty counts the streams inside the location it is
\* given (the storage of the recipient, the top level without a location)
\* and the records of the properties instance in use, a property with both
\* once, and its boolean is true exactly when the count is positive.
C30_ExistsInLocation ==
    /\ (last.op = "recipient.existsTypedProperty" /\ ~IsRaise(last.out)) =>
            last.out = FoundNumber(CountedIn(ole, recip.dir, recip.props, UsableId(last)))
    /\ (last.op = "existsTypedProperty" /\ ~IsRaise(last.out)) =>
            last.out = FoundNumber(CountedIn(ole, <<>>, self.props.val, UsableId(last)))
====
